---- MODULE Spec2Model ----
(***************************************************************************)
(* Render pipeline of video-jobs-mvp: the in-memory job store              *)
(* (lib/storage.ts), the staged orchestrator (workers/orchestrator.ts),    *)
(* the brief / script / shot-plan workers (workers/parse_llm.ts,           *)
(* workers/script_llm.ts), the scene generators (workers/generators.ts)    *)
(* and the status endpoint (api/server.ts).                                *)
(*                                                                         *)
(* processRenderJob is an async function: it runs synchronously from one   *)
(* await to the next.  Each action below is the completion of the awaited  *)
(* operation named by the run's pc, together with the synchronous code     *)
(* that follows it up to the next await.                                   *)
(***************************************************************************)
EXTENDS Integers, Sequences, FiniteSets, TLC

\* ------------------------------------------------------------------ bounds
\* render ids whose runs are interleaved
Ids == {"r_a", "r_b"}
\* largest scene_count a request carries (RenderRequest: 1-3)
MaxSceneCount == 3
\* longest beats / scenes / segments array a collaborator answers with
MaxArrayLen == 3

\* ------------------------------------------------------- program constants
\* script_llm.ts:43  script.beats.length !== 3
ScriptBeats == 3
\* script_llm.ts:86  shotPlan.scenes.length !== 2
PlanScenes == 2
\* script_llm.ts:104 Math.floor(duration_s / 3)
FallbackDivisor == 3
\* config.defaults.duration_s (DEFAULT_DURATION_S || '21')
DefaultDuration == 21
\* script_llm.ts:109 beat.substring(0, 60)
OverlayMaxLen == 60

\* ---------------------------------------------------------------- options
\* an optional value (undefined | v) is <<>> or <<v>>
None == <<>>
Some(v) == <<v>>
Get(o) == o[1]

\* --------------------------------------------------------------- messages
\* String(error) for an Error object: "<name>: <message>"
ErrorString(err) == err.name \o ": " \o err.message

MkError(msg) == [name |-> "Error", message |-> msg]

\* what a failing external call rejects with
NetworkError == [name |-> "Error", message |-> "Connection error."]
SyntaxErr == [name |-> "SyntaxError", message |-> "Unexpected token in JSON"]
TypeErr == [name |-> "TypeError", message |-> "Cannot read properties of undefined"]
FsError == [name |-> "Error", message |-> "EACCES: permission denied, mkdir"]
ExecError == [name |-> "Error", message |-> "Command failed: ffmpeg"]

\* a function's result: a value, or a thrown error
Return(v) == [ok |-> TRUE, val |-> Some(v), err |-> MkError("")]
Throw(e) == [ok |-> FALSE, val |-> None, err |-> e]

\* ------------------------------------------------------------ JS helpers
\* !s for a string-or-undefined value
Falsy(o) == o = None \/ o = Some("")

\* s.substring(0, n)
Substring(s, n) == IF Len(s) <= n THEN s ELSE SubSeq(s, 1, n)

\* arr[index] with a 0-based index: undefined outside the array
At(arr, index) == IF index + 1 \in DOMAIN arr THEN Some(arr[index + 1]) ELSE None

\* a || b on strings
OrElse(o, dflt) == IF Falsy(o) THEN dflt ELSE Get(o)

\* ------------------------------------------------- collaborator responses
\* An LLM call either rejects ("throw"), answers without content
\* ("nocontent"), answers text JSON.parse rejects ("unparsable"), or answers
\* a JSON object ("json").
Kinds == {"throw", "nocontent", "unparsable", "json"}

\* the common prefix of parseJobDescription / generateScript /
\* generateShotPlan / generateSalesPitch: create(), content check, JSON.parse
ParseContent(resp) ==
  IF resp.kind = "throw" THEN Throw(NetworkError)
  ELSE IF resp.kind = "nocontent" THEN Throw(MkError("No content in LLM response"))
  ELSE IF resp.kind = "unparsable" THEN Throw(SyntaxErr)
  ELSE Return(resp.json)

\* ------------------------------------------------------------ parse_llm.ts
parseJobDescription(resp) ==
  LET parsed == ParseContent(resp) IN
  IF ~parsed.ok THEN parsed
  ELSE LET brief == Get(parsed.val) IN
       IF Falsy(brief.title) \/ Falsy(brief.impact)
       THEN Throw(MkError("Missing required fields in parsed brief"))
       ELSE Return(brief)

\* ----------------------------------------------------------- script_llm.ts
\* generateScript(brief, tone, duration_s): the orchestrator's fourth
\* argument (scene_count) has no parameter to bind to and is dropped.
generateScript(brief, tone, duration_s, resp) ==
  LET parsed == ParseContent(resp) IN
  IF ~parsed.ok THEN parsed
  ELSE LET script == Get(parsed.val) IN
       IF Falsy(script.hook) \/ script.beats = None
          \/ Len(Get(script.beats)) # ScriptBeats
       THEN Throw(MkError("Invalid script structure"))
       ELSE Return(script)

Metaphors(tone) ==
  IF tone = "aspirational" THEN
    << "holographic constellations of code over a sunrise city skyline",
       "dynamic system diagrams morphing into real-world outcomes",
       "modern office with team collaborating, warm natural light" >>
  ELSE IF tone = "energetic" THEN
    << "fast-paced montage of tech products launching",
       "colorful data visualizations coming to life",
       "vibrant workspace with dynamic team interactions" >>
  ELSE IF tone = "witty" THEN
    << "playful tech metaphors with unexpected twists",
       "clever visual puns on technology concepts",
       "creative team brainstorming with dynamic energy" >>
  ELSE
    << "clean modern office spaces with focused professionals",
       "sophisticated data dashboards and analytics",
       "executive team in sleek conference room" >>

generateVisualMetaphor(beat, index, tone) ==
  Metaphors(tone)[(index % Len(Metaphors(tone))) + 1]

getMusicMood(tone) ==
  IF tone = "aspirational" THEN "upbeat cinematic"
  ELSE IF tone = "energetic" THEN "upbeat electronic"
  ELSE IF tone = "professional" THEN "corporate modern"
  ELSE IF tone = "witty" THEN "playful upbeat"
  ELSE "upbeat cinematic"

\* script.beats.map(...): the callback reads script.on_screen_text[index],
\* a TypeError when on_screen_text is undefined and there is a beat to map
makeShotPlanFallback(script, duration_s, tone) ==
  LET sceneDuration == duration_s \div FallbackDivisor
      beats == Get(script.beats)
  IN
  IF script.on_screen_text = None /\ Len(beats) > 0 THEN Throw(TypeErr)
  ELSE Return([
    aspect |-> "9:16",
    music_mood |-> getMusicMood(tone),
    subtitle_style |-> "bold_lower_thirds",
    scenes |-> [k \in 1..Len(beats) |->
      [ len_s |-> sceneDuration,
        visual_metaphor |-> generateVisualMetaphor(beats[k], k - 1, tone),
        overlay |-> OrElse(At(Get(script.on_screen_text), k - 1),
                           Substring(beats[k], OverlayMaxLen)) ]]])

\* generateShotPlan(script, brief, duration_s, tone): try { LLM plan with
\* exactly PlanScenes scenes } catch { makeShotPlanFallback }
generateShotPlan(script, brief, duration_s, tone, resp) ==
  LET parsed == ParseContent(resp) IN
  IF parsed.ok /\ Get(parsed.val).scenes # None
     /\ Len(Get(Get(parsed.val).scenes)) = PlanScenes
  THEN Return([Get(parsed.val) EXCEPT !.scenes = Get(@)])
  ELSE makeShotPlanFallback(script, duration_s, tone)

\* ------------------------------------------------------ sales_pitch_llm.ts
\* brief.top_responsibilities[0] / brief.benefits[0] are read only for
\* sceneCount >= 2 / >= 3 and are a TypeError on an undefined array
generateFallbackSalesPitch(brief, sceneCount) ==
  IF sceneCount >= 2 /\ brief.top_responsibilities = None THEN Throw(TypeErr)
  ELSE IF sceneCount >= 3 /\ brief.benefits = None THEN Throw(TypeErr)
  ELSE LET seg1 == Get(brief.title) \o " opportunity at "
                     \o OrElse(brief.location, "a great company")
           seg2 == Substring(OrElse(At(Get(brief.top_responsibilities), 0),
                                    "Make an impact"), OverlayMaxLen)
           seg3 == Substring(OrElse(At(Get(brief.benefits), 0),
                                    "Join our team"), OverlayMaxLen)
       IN Return([
            segments |-> (IF sceneCount >= 1 THEN <<seg1>> ELSE <<>>)
                      \o (IF sceneCount >= 2 THEN <<seg2>> ELSE <<>>)
                      \o (IF sceneCount >= 3 THEN <<seg3>> ELSE <<>>),
            full_pitch |-> Get(brief.title) \o " role focused on "
                             \o Get(brief.impact) ])

generateSalesPitch(brief, sceneCount, resp) ==
  LET parsed == ParseContent(resp) IN
  IF parsed.ok /\ Get(parsed.val).segments # None
     /\ Len(Get(Get(parsed.val).segments)) = sceneCount
  THEN Return([Get(parsed.val) EXCEPT !.segments = Get(@)])
  ELSE generateFallbackSalesPitch(brief, sceneCount)

\* =================================================================== state
VARIABLES
  jobs,      \* storage.ts `jobs` Map: render id -> reference to a job object
  heap,      \* job objects by reference (fields of RenderJob)
  run,       \* per render id: the processRenderJob activation (pc, locals,
             \* and the responses its collaborators gave)
  fs,        \* files present under config.paths.tmp
  polled,    \* the response of GET /render/:id when the last step was one
  world,     \* which input domains the environment draws from (fixed)
  config,    \* lib/config.ts values the pipeline reads (fixed at start-up)
  hist,      \* per render id: the status values the stored job has taken
  calls,     \* per render id: the external operations invoked, in order
  inflight,  \* per render id: external operations issued and not yet settled
  applied    \* the last call of a helper made on its own: name, arguments,
             \* result

vars == <<jobs, heap, run, fs, polled, world, config, hist, calls, inflight,
          applied>>

\* f with key k bound to v (Map.set)
MapSet(f, k, v) == [x \in (DOMAIN f) \cup {k} |-> IF x = k THEN v ELSE f[x]]

\* ---------------------------------------------------------------- storage.ts
\* The store state is the pair (jobs, heap); every operation returns the
\* pair after the call.
\* faulty variant: the job object is stored under every id of the map
saveJobUnderEveryId(st, ref) ==
  [st EXCEPT !.jobs = [k \in (DOMAIN st.jobs) \cup {st.heap[ref].render_id} |-> ref]]

saveJob(st, ref) ==
  [st EXCEPT !.jobs = MapSet(st.jobs, st.heap[ref].render_id, ref)]

getJob(st, renderId) ==
  IF renderId \in DOMAIN st.jobs THEN Some(st.jobs[renderId]) ELSE None

\* faulty variant: the status is written to every stored job, not only renderId's
updateJobStatusAll(st, renderId, status, error) ==
  [st EXCEPT !.heap = [ref \in DOMAIN st.heap |->
                         [st.heap[ref] EXCEPT !.status = status]]]

\* faulty variant: the write is dropped
updateJobStatusSkip(st, renderId, status, error) == st

\* faulty variant: the status is written, the error message is not
updateJobStatusNoError(st, renderId, status, error) ==
  IF getJob(st, renderId) = None THEN st
  ELSE [st EXCEPT !.heap[Get(getJob(st, renderId))].status = status]

updateJobStatus(st, renderId, status, error) ==
  LET job == getJob(st, renderId) IN
  IF job = None THEN st
  ELSE LET ref == Get(job)
           h1 == [st.heap EXCEPT ![ref].status = status]
           h2 == IF ~Falsy(error) THEN [h1 EXCEPT ![ref].error = error] ELSE h1
       IN [jobs |-> MapSet(st.jobs, renderId, ref), heap |-> h2]

\* ------------------------------------------------------------- job objects
\* server.ts: the RenderJob literal a new job starts from
NewJob(render_id, request) ==
  [ render_id |-> render_id, request |-> request, status |-> "QUEUED",
    brief |-> None, script |-> None, shot_plan |-> None, sales_pitch |-> None,
    scene_files |-> None, final_video |-> None, error |-> None,
    cost_cents |-> 0, steps |-> <<>> ]

\* job.debug.steps.push({ step, duration_ms, timestamp })
PushStep(job, step) == [job EXCEPT !.steps = Append(@, step)]

\* request.scene_count || 1
SceneCountOf(request) ==
  IF request.scene_count = None \/ Get(request.scene_count) = 0 THEN 1
  ELSE Get(request.scene_count)

\* request.duration_s || config.defaults.duration_s
DurationOf(request) ==
  IF request.duration_s = None \/ Get(request.duration_s) = 0 THEN DefaultDuration
  ELSE Get(request.duration_s)

\* request.engine || 'template'
EngineOf(request) == IF Falsy(request.engine) THEN "template" ELSE Get(request.engine)

\* ------------------------------------------------------------------ inputs
Tones == {"professional"}

\* RenderRequest (types/index.ts): the fields the pipeline reads
Requests ==
  [ scene_count : {None} \cup {Some(n) : n \in 1..MaxSceneCount},
    duration_s : {None},
    engine : {None, Some("template"), Some("veo3"), Some("sora2")},
    overlay_only : BOOLEAN,
    tone : Tones ]

Texts(prefix, k) == [i \in 1..k |-> prefix \o ToString(i)]

Resp(kind, json) == [kind |-> kind, json |-> json]

\* the responses of one collaborator: the three non-JSON outcomes and one
\* JSON answer per object in jsons
Responses(jsons) ==
  {Resp(k, CHOOSE j \in jsons : TRUE) : k \in Kinds \ {"json"}}
    \cup {Resp("json", j) : j \in jsons}

BriefJsons ==
  [ title : {None, Some("Engineer")},
    impact : {None, Some("ship things")},
    location : {None},
    top_responsibilities : {None, Some(<<"Build the pipeline">>)},
    benefits : {Some(<<>>)} ]

ScriptJsons ==
  [ hook : {None, Some("Ready?")},
    beats : {None} \cup {Some(Texts("Beat ", k)) : k \in 0..MaxArrayLen},
    on_screen_text : {None} \cup {Some(Texts("Text ", k)) : k \in (ScriptBeats - 1)..ScriptBeats},
    cta_url : {None} ]

LlmScene == [len_s |-> 7, visual_metaphor |-> "slow dolly shot", overlay |-> "caption"]

PlanJsons ==
  [ aspect : {"9:16"}, music_mood : {"corporate modern"},
    subtitle_style : {"bold_lower_thirds"},
    scenes : {None} \cup {Some([i \in 1..k |-> LlmScene]) : k \in 0..MaxArrayLen} ]

PitchJsons ==
  [ segments : {None} \cup {Some(Texts("Pitch ", k)) : k \in 0..MaxArrayLen},
    full_pitch : {"pitch"} ]

Outcomes == {"ok", "fail"}

\* Input domains.  In the world "solo" one job runs and every input of the
\* sets above is drawn; in the world "duo" two jobs run interleaved and each
\* collaborator answers with one accepted and one failing response; in the
\* world "veo" one posted job runs with those reduced answers and
\* generateVeoScene is followed await by await.
IdsIn(w) == IF w = "duo" THEN Ids ELSE {"r_a"}

RequestsIn(w) ==
  IF w = "duo"
  THEN [ scene_count : {None}, duration_s : {None}, engine : {Some("veo3")},
         overlay_only : BOOLEAN, tone : Tones ]
  ELSE Requests

FullBrief ==
  [ title |-> Some("Engineer"), impact |-> Some("ship things"), location |-> None,
    top_responsibilities |-> Some(<<"Build the pipeline">>), benefits |-> Some(<<>>) ]

FullScript ==
  [ hook |-> Some("Ready?"), beats |-> Some(Texts("Beat ", ScriptBeats)),
    on_screen_text |-> Some(Texts("Text ", ScriptBeats)), cta_url |-> None ]

PlanJson(k) ==
  [ aspect |-> "9:16", music_mood |-> "corporate modern",
    subtitle_style |-> "bold_lower_thirds", scenes |-> Some([i \in 1..k |-> LlmScene]) ]

BriefResponsesIn(w) ==
  IF w # "solo" THEN {Resp("json", FullBrief)}
  ELSE Responses(BriefJsons)

PitchResponsesIn(w) ==
  IF w # "solo" THEN {Resp("json", [segments |-> Some(Texts("Pitch ", 1)), full_pitch |-> "pitch"])}
  ELSE Responses(PitchJsons)

ScriptResponsesIn(w) ==
  IF w # "solo" THEN {Resp("nocontent", FullScript), Resp("json", FullScript)}
  ELSE Responses(ScriptJsons)

PlanResponsesIn(w) ==
  IF w # "solo" THEN {Resp("json", PlanJson(PlanScenes))}
  ELSE Responses(PlanJsons)

\* ------------------------------------------------------------ bookkeeping
cur == [jobs |-> jobs, heap |-> heap]

StatusIn(st, id) ==
  IF id \in DOMAIN st.jobs THEN st.heap[st.jobs[id]].status ELSE "ABSENT"

\* the status history of one id, extended when the stored status differs
\* from the last one recorded
Observe(h, st, id) ==
  IF id \notin DOMAIN st.jobs THEN h
  ELSE IF h # <<>> /\ h[Len(h)] = StatusIn(st, id) THEN h
  ELSE Append(h, StatusIn(st, id))

\* faulty variant: the call was not awaited, it stays in flight
SettleNever(ops, op) == ops

\* an awaited promise settles: it is no longer in flight
Settle(ops, op) == ops \ {op}

\* the activation of id moves to r: the operation it was awaiting (its old
\* pc) has settled, the one it awaits now (r.pc) has been issued, and the
\* store is st
Commit(id, st, r) ==
  /\ polled' = None
  /\ config' = config
  /\ world' = world
  /\ applied' = applied
  /\ jobs' = st.jobs
  /\ heap' = st.heap
  /\ run' = [run EXCEPT ![id] = r]
  /\ hist' = [j \in Ids |-> Observe(hist[j], st, j)]
  /\ inflight' = [inflight EXCEPT ![id] =
        Settle(@, run[id].pc) \cup (IF r.pc = "done" THEN {} ELSE {r.pc})]
  /\ calls' = [calls EXCEPT ![id] =
        IF r.pc = "done" THEN @
        ELSE Append(@, [op |-> r.pc, idx |-> r.i, status |-> StatusIn(st, id)])]

\* orchestrator.ts catch block: updateJobStatus(renderId, 'ERROR', String(error))
CatchFrom(id, st, r, err) ==
  Commit(id, updateJobStatus(st, id, "ERROR", Some(ErrorString(err))),
         [r EXCEPT !.pc = "done", !.error = Some(err)])

Catch(id, st, err) == CatchFrom(id, st, run[id], err)

IdleRun ==
  [ pc |-> "idle", job |-> None, i |-> 0, sceneFiles |-> <<>>,
    sceneDurations |-> <<>>, qc |-> None, error |-> None,
    briefResp |-> None, scriptResp |-> None, asked |-> None,
    pollCount |-> 0, operation |-> None, size |-> 0, dialogue |-> <<>> ]

Base ==
  /\ jobs = << >>
  /\ heap = << >>
  /\ run = [id \in Ids |-> IdleRun]
  /\ polled = None
  /\ config \in [s3 : IF world = "solo" THEN BOOLEAN ELSE {TRUE},
                  gemini : IF world = "veo" THEN BOOLEAN ELSE {TRUE}]
  /\ hist = [id \in Ids |-> <<>>]
  /\ calls = [id \in Ids |-> <<>>]
  /\ inflight = [id \in Ids |-> {}]
  /\ applied = None

\* ------------------------------------------------------- processRenderJob
\* A caller creates the job (QUEUED), saves it and calls processRenderJob,
\* which runs up to its first await: mkdir(config.paths.tmp).
SubmitJob(id) ==
  /\ run[id].pc = "idle"
  /\ \E request \in RequestsIn(world) :
      /\ id \notin DOMAIN jobs
      /\ LET st0 == [jobs |-> jobs, heap |-> MapSet(heap, id, NewJob(id, request))]
         IN Commit(id, saveJob(st0, id),
                   [run[id] EXCEPT !.pc = "mkdir_tmp", !.asked = Some(request.engine)])
      /\ fs' = fs

\* the body of a POST /render: the fields the handler reads.  complete is
\* whether company, job_description and brand are all present; any other
\* field of the body (scene_count, overlay_only) is not copied into the
\* request.
Bodies ==
  [ engine : {None, Some("template"), Some("veo3"), Some("sora2"), Some("kling")},
    duration_s : {None},
    complete : BOOLEAN,
    tone : Tones ]

BodiesIn(w) ==
  IF w = "solo" THEN Bodies
  ELSE [ engine : {Some("veo3")}, duration_s : {None}, complete : BOOLEAN,
         tone : Tones ]

\* server.ts: the RenderRequest literal built from req.body
AcceptRequest(body) ==
  [ scene_count |-> None,
    duration_s |-> IF body.duration_s = None \/ Get(body.duration_s) = 0
                   THEN Some(DefaultDuration) ELSE body.duration_s,
    engine |-> IF Falsy(body.engine) THEN Some("veo3") ELSE body.engine,
    overlay_only |-> FALSE,
    tone |-> body.tone ]

\* POST /render: 400 when a required field is missing, else the job is
\* created QUEUED, saved, and processRenderJob runs up to its first await
PostRender(id) ==
  /\ run[id].pc = "idle"
  /\ id \notin DOMAIN jobs
  /\ \E body \in BodiesIn(world) :
      IF ~body.complete THEN UNCHANGED vars
      ELSE /\ LET st0 == [jobs |-> jobs,
                          heap |-> MapSet(heap, id, NewJob(id, AcceptRequest(body)))]
              IN Commit(id, saveJob(st0, id),
                        [run[id] EXCEPT !.pc = "mkdir_tmp", !.asked = Some(body.engine)])
           /\ fs' = fs

\* processRenderJob is called with an id that no job was saved under
ProcessUnknownJob(id) ==
  /\ run[id].pc = "idle"
  /\ id \notin DOMAIN jobs
  /\ Commit(id, cur, [run[id] EXCEPT !.pc = "mkdir_tmp"])
  /\ fs' = fs

MkdirTmpDone(id, outcome) ==
  /\ run[id].pc = "mkdir_tmp"
  /\ IF outcome = "fail" THEN Catch(id, cur, FsError)
     ELSE Commit(id, cur, [run[id] EXCEPT !.pc = "mkdir_renders"])
  /\ fs' = fs

\* mkdir(config.paths.renders) settles; getJob; updateJobStatus RUNNING;
\* parseJobDescription is called and awaits the LLM
\* faulty variant: a job that is not found is created
MkdirRendersDoneCreating(id, outcome) ==
  /\ run[id].pc = "mkdir_renders"
  /\ IF outcome = "fail" THEN Catch(id, cur, FsError)
     ELSE LET job == getJob(cur, id) IN
          IF job = None
          THEN LET request == CHOOSE r \in RequestsIn(world) : TRUE
                   st0 == [jobs |-> jobs, heap |-> MapSet(heap, id, NewJob(id, request))]
               IN Commit(id, saveJob(st0, id), [run[id] EXCEPT !.pc = "done"])
          ELSE Commit(id, updateJobStatus(cur, id, "RUNNING", None),
                      [run[id] EXCEPT !.pc = "parse", !.job = job])
  /\ fs' = fs

MkdirRendersDone(id, outcome) ==
  /\ run[id].pc = "mkdir_renders"
  /\ IF outcome = "fail" THEN Catch(id, cur, FsError)
     ELSE LET job == getJob(cur, id) IN
          IF job = None THEN Catch(id, cur, MkError("Job not found"))
          ELSE Commit(id, updateJobStatus(cur, id, "RUNNING", None),
                      [run[id] EXCEPT !.pc = "parse", !.job = job])
  /\ fs' = fs

\* the job object of a running activation
JobOf(id) == heap[Get(run[id].job)]

\* st with the job object of id replaced by job
WithJob(st, id, job) == [st EXCEPT !.heap[Get(run[id].job)] = job]

\* Step 1 settles: job.brief, step record, saveJob; Step 2 calls
\* generateSalesPitch
\* faulty variant: a first failure of the brief extraction is tried again
ParseDoneRetrying(id) ==
  /\ run[id].pc = "parse"
  /\ \E resp \in BriefResponsesIn(world) :
      /\ LET res == parseJobDescription(resp)
             r == [run[id] EXCEPT !.briefResp = Some(resp)]
         IN
         IF ~res.ok
         THEN IF run[id].briefResp = None THEN Commit(id, cur, r)
              ELSE CatchFrom(id, cur, r, res.err)
         ELSE LET job == PushStep([JobOf(id) EXCEPT !.brief = res.val], "parse")
              IN Commit(id, saveJob(WithJob(cur, id, job), Get(run[id].job)),
                        [r EXCEPT !.pc = "sales_pitch"])
      /\ fs' = fs

ParseDone(id) ==
  /\ run[id].pc = "parse"
  /\ \E resp \in BriefResponsesIn(world) :
      /\ LET res == parseJobDescription(resp)
             r == [run[id] EXCEPT !.briefResp = Some(resp)]
         IN
         IF ~res.ok THEN CatchFrom(id, cur, r, res.err)
         ELSE LET job == PushStep([JobOf(id) EXCEPT !.brief = res.val], "parse")
              IN Commit(id, saveJob(WithJob(cur, id, job), Get(run[id].job)),
                        [r EXCEPT !.pc = "sales_pitch"])
      /\ fs' = fs

\* Step 2 settles: job.sales_pitch, step record, saveJob; Step 3 calls
\* generateScript(brief, tone, duration_s, scene_count)
SalesPitchDone(id) ==
  /\ run[id].pc = "sales_pitch"
  /\ \E resp \in PitchResponsesIn(world) :
      /\ LET scene_count == SceneCountOf(JobOf(id).request)
             res == generateSalesPitch(Get(JobOf(id).brief), scene_count, resp)
         IN
         IF ~res.ok THEN Catch(id, cur, res.err)
         ELSE LET job == PushStep([JobOf(id) EXCEPT
                                     !.sales_pitch = Some(Get(res.val).segments)],
                                  "sales_pitch")
              IN Commit(id, saveJob(WithJob(cur, id, job), Get(run[id].job)),
                        [run[id] EXCEPT !.pc = "script"])
      /\ fs' = fs

\* generateScript settles: job.script; generateShotPlan is called
ScriptDone(id) ==
  /\ run[id].pc = "script"
  /\ \E resp \in ScriptResponsesIn(world) :
      /\ LET request == JobOf(id).request
             res == generateScript(Get(JobOf(id).brief), request.tone,
                                   DurationOf(request), resp)
             r == [run[id] EXCEPT !.scriptResp = Some(resp)]
         IN
         IF ~res.ok THEN CatchFrom(id, cur, r, res.err)
         ELSE Commit(id, WithJob(cur, id, [JobOf(id) EXCEPT !.script = res.val]),
                     [r EXCEPT !.pc = "shot_plan"])
      /\ fs' = fs

\* --------------------------------------------------------- artifact paths
\* file names under config.paths.tmp
\* faulty variant: the scene clip is named by its index alone
ScenePathShared(renderId, i) == "scene" \o ToString(i) \o ".mp4"

ScenePath(renderId, i) == renderId \o "_scene" \o ToString(i) \o ".mp4"
NormPath(renderId, i) == renderId \o "_scene" \o ToString(i) \o "_norm.mp4"
ConcatPath(renderId) == renderId \o "_concat.mp4"
ConcatListPath(renderId) == renderId \o "_concat.txt"
AssPath(renderId) == renderId \o "_overlays.ass"
OverlaysPath(renderId) == renderId \o "_overlays.mp4"
EndCardPngPath(renderId) == renderId \o "_endcard.png"
EndCardMp4Path(renderId) == renderId \o "_endcard.mp4"
FinalListPath(renderId) == renderId \o "_final_concat.txt"
FinalPath(renderId) == renderId \o "_final.mp4"

\* a render of an earlier process whose files are still under tmp
OldId == "r_0"

\* the clips that render left behind
OldFiles == {NormPath(OldId, 0), ScenePath(OldId, 0), ScenePath(OldId, 1)}

\* render ids in String.localeCompare order
IdOrder == <<"r_0", "r_a", "r_b">>
Rank(renderId) == CHOOSE k \in 1..Len(IdOrder) : IdOrder[k] = renderId

\* the ids of IdOrder that are in S, highest first
RECURSIVE Descending(_, _)
Descending(S, k) ==
  IF k = 0 THEN <<>>
  ELSE (IF IdOrder[k] \in S THEN <<IdOrder[k]>> ELSE <<>>) \o Descending(S, k - 1)

\* orchestrator.ts findExistingSceneVideos, given the readdir listing
RECURSIVE PickRender(_, _, _)
PickRender(ids, sceneCount, files) ==
  IF ids = <<>> THEN None
  ELSE LET renderId == Head(ids)
           has(i) == NormPath(renderId, i) \in files \/ ScenePath(renderId, i) \in files
           pick(i) == IF NormPath(renderId, i) \in files THEN NormPath(renderId, i)
                      ELSE ScenePath(renderId, i)
       IN IF \A i \in 0..(sceneCount - 1) : has(i)
          THEN Some([k \in 1..sceneCount |-> pick(k - 1)])
          ELSE PickRender(Tail(ids), sceneCount, files)

\* faulty variant: the normalized files are not looked at
findExistingSceneVideosRaw(sceneCount, currentRenderId, files) ==
  LET raw == {f \in files : \A k \in 1..Len(IdOrder), i \in 0..(MaxArrayLen - 1) :
                              f # NormPath(IdOrder[k], i)}
      renderGroups ==
        { rid \in {IdOrder[k] : k \in 1..Len(IdOrder)} \ {currentRenderId} :
            \E i \in 0..(MaxArrayLen - 1) : ScenePath(rid, i) \in raw }
      found == PickRender(Descending(renderGroups, Len(IdOrder)), sceneCount, raw)
  IN IF found = None
     THEN Throw(MkError("Could not find existing scene videos"))
     ELSE Return(Get(found))

findExistingSceneVideos(sceneCount, currentRenderId, files) ==
  LET renderGroups ==
        { rid \in {IdOrder[k] : k \in 1..Len(IdOrder)} \ {currentRenderId} :
            \E i \in 0..(MaxArrayLen - 1) :
              ScenePath(rid, i) \in files \/ NormPath(rid, i) \in files }
      found == PickRender(Descending(renderGroups, Len(IdOrder)), sceneCount, files)
  IN IF found = None
     THEN Throw(MkError("Could not find " \o ToString(sceneCount)
                  \o " existing scene videos in tmp directory. Please generate videos first or use a different engine."))
     ELSE Return(Get(found))

\* ------------------------------------------------ Step 4 and Step 5 entry
\* concatenateScenes is called: the normalisation loop starts, or with no
\* scene files the concat list is written at once
BeginCompose(st, r) ==
  [ st |-> st,
    r |-> [r EXCEPT !.i = 0,
             !.pc = IF Len(r.sceneFiles) > 0 THEN "normalize" ELSE "write_concat_list"] ]

\* faulty variant: the stub variant calls the external generation service
AdapterOpSoraExternal(engine) ==
  IF engine \in {"veo3", "sora2"} THEN "veo" ELSE "template"

\* generators.ts getGeneratorAdapter(engine).generate: what is awaited first
AdapterOp(engine) == IF engine = "veo3" THEN "veo" ELSE "template"

\* head of `for (i < shotPlan.scenes.length)`: generateScene for scene r.i,
\* or after the last scene job.scene_files, step record, saveJob and Step 5
BeginScene(st, r) ==
  LET ref == Get(r.job)
      job == st.heap[ref]
  IN IF r.i < Len(Get(job.shot_plan).scenes)
     THEN [st |-> st, r |-> [r EXCEPT !.pc = AdapterOp(EngineOf(job.request))]]
     ELSE LET job2 == PushStep([job EXCEPT !.scene_files = Some(r.sceneFiles)],
                               "generate")
          IN BeginCompose(saveJob([st EXCEPT !.heap[ref] = job2], ref), r)

CommitBoth(id, sr) == Commit(id, sr.st, sr.r)

\* generateShotPlan settles: job.shot_plan, step record 'script', saveJob;
\* Step 4 starts (readdir in overlay-only mode, else the first scene)
ShotPlanDone(id) ==
  /\ run[id].pc = "shot_plan"
  /\ \E resp \in PlanResponsesIn(world) :
      /\ LET request == JobOf(id).request
             res == generateShotPlan(Get(JobOf(id).script), Get(JobOf(id).brief),
                                     DurationOf(request), request.tone, resp)
         IN
         IF ~res.ok
         THEN Catch(id, cur, res.err)
         ELSE LET job == PushStep([JobOf(id) EXCEPT !.shot_plan = res.val], "script")
                  st == saveJob(WithJob(cur, id, job), Get(run[id].job))
                  r == [run[id] EXCEPT !.i = 0, !.sceneFiles = <<>>]
              IN IF request.overlay_only
                 THEN Commit(id, st, [r EXCEPT !.pc = "readdir"])
                 ELSE CommitBoth(id, BeginScene(st, r))
      /\ fs' = fs

\* readdir(tmpDir) settles inside findExistingSceneVideos
ReaddirDone(id, outcome) ==
  /\ run[id].pc = "readdir"
  /\ IF outcome = "fail" THEN Catch(id, cur, FsError)
     ELSE LET res == findExistingSceneVideos(SceneCountOf(JobOf(id).request), id, fs)
          IN IF ~res.ok THEN Catch(id, cur, res.err)
             ELSE LET job == PushStep([JobOf(id) EXCEPT !.scene_files = res.val],
                                      "find_existing")
                      st == saveJob(WithJob(cur, id, job), Get(run[id].job))
                  IN CommitBoth(id, BeginCompose(st,
                                   [run[id] EXCEPT !.sceneFiles = Get(res.val)]))
  /\ fs' = fs

\* generateVeoScene settles: its clip is taken, or Veo3Adapter falls back
\* to the template adapter for the same scene
VeoDone(id, outcome) ==
  /\ run[id].pc = "veo"
  /\ IF outcome = "fail"
     THEN /\ Commit(id, cur, [run[id] EXCEPT !.pc = "template"])
          /\ fs' = fs
     ELSE /\ CommitBoth(id, BeginScene(cur,
                 [run[id] EXCEPT !.sceneFiles = Append(@, ScenePath(id, run[id].i)),
                                 !.i = @ + 1]))
          /\ fs' = fs \cup {ScenePath(id, run[id].i)}

\* TemplateAdapter.generate: the ffmpeg gradient render settles
TemplateDone(id, outcome) ==
  /\ run[id].pc = "template"
  /\ IF outcome = "fail"
     THEN /\ Catch(id, cur, ExecError)
          /\ fs' = fs
     ELSE /\ CommitBoth(id, BeginScene(cur,
                 [run[id] EXCEPT !.sceneFiles = Append(@, ScenePath(id, run[id].i)),
                                 !.i = @ + 1]))
          /\ fs' = fs \cup {ScenePath(id, run[id].i)}

\* ------------------------------------------------------ compose_ffmpeg.ts
\* measured clip lengths ffprobe reports, in milliseconds
ProbeDurations == {7000, 8040}

\* faulty variant: a failed subprocess or file write is logged and the
\* activation goes on
ToolDoneAbsorb(id, outcome, err, output, r) ==
  Commit(id, cur, r) /\ fs' = (IF outcome = "fail" THEN fs ELSE fs \cup output)

\* an awaited subprocess or file write settles: on failure the error
\* propagates to the orchestrator's catch, on success the output file exists
\* and the activation goes on as r
ToolDone(id, outcome, err, output, r) ==
  IF outcome = "fail"
  THEN Catch(id, cur, err) /\ fs' = fs
  ELSE Commit(id, cur, r) /\ fs' = fs \cup output

\* concatenateScenes: the re-encode of scene file i settles
NormalizeDone(id, outcome) ==
  /\ run[id].pc = "normalize"
  /\ outcome = "ok" => run[id].sceneFiles[run[id].i + 1] \in fs
  /\ ToolDone(id, outcome, ExecError, {NormPath(id, run[id].i)},
       IF run[id].i + 1 < Len(run[id].sceneFiles)
       THEN [run[id] EXCEPT !.i = @ + 1]
       ELSE [run[id] EXCEPT !.pc = "write_concat_list"])

WriteConcatListDone(id, outcome) ==
  /\ run[id].pc = "write_concat_list"
  /\ ToolDone(id, outcome, FsError, {ConcatListPath(id)},
              [run[id] EXCEPT !.pc = "concat"])

\* generateSubtitles: salesPitchSegments ? salesPitchSegments.length
\*                                       : script.beats.length
SubtitleSceneCount(job) ==
  IF job.sales_pitch # None THEN Len(Get(job.sales_pitch))
  ELSE Len(Get(Get(job.script).beats))

\* s.substring(a, b) for 0 <= a <= b
SubstringFrom(s, a, b) ==
  IF a >= Len(s) THEN "" ELSE SubSeq(s, a + 1, IF b < Len(s) THEN b ELSE Len(s))

\* hex.replace('#', ''): the first '#' of the string, wherever it is, is
\* removed
StripHash(hex) ==
  LET at == {i \in 1..Len(hex) : SubSeq(hex, i, i) = "#"} IN
  IF at = {} THEN hex
  ELSE LET i == CHOOSE i \in at : \A j \in at : i <= j
       IN SubstringFrom(hex, 0, i - 1) \o SubstringFrom(hex, i, Len(hex))

\* faulty variant: the colour bytes are kept in RGB order
hexToAssColorRgb(hex, alpha) ==
  "&H" \o alpha \o SubstringFrom(StripHash(hex), 0, 6) \o "&"

\* compose_ffmpeg.ts hexToAssColor: `&H${alpha}${b}${g}${r}&`
hexToAssColor(hex, alpha) ==
  LET h == StripHash(hex)
      r == SubstringFrom(h, 0, 2)
      g == SubstringFrom(h, 2, 4)
      b == SubstringFrom(h, 4, 6)
  IN "&H" \o alpha \o b \o g \o r \o "&"

\* n.toString().padStart(2, '0')
Pad2(n) == IF n < 10 THEN "0" \o ToString(n) ELSE ToString(n)

\* generateSubtitles formatTime, of an offset given in milliseconds:
\* (seconds % 60).toFixed(2) is the nearest hundredth (offsets halfway
\* between two hundredths, which toFixed rounds by their binary
\* representation, are not drawn), padStart(5, '0') pads it to SS.cc
formatTime(ms) ==
  LET h == ms \div 3600000
      m == (ms % 3600000) \div 60000
      s == ((ms % 60000) + 5) \div 10
  IN ToString(h) \o ":" \o Pad2(m) \o ":" \o Pad2(s \div 100) \o "." \o Pad2(s % 100)

RECURSIVE Cumulative(_, _)
\* the sum of the first k measured durations
Cumulative(sceneDurations, k) ==
  IF k = 0 THEN 0 ELSE Cumulative(sceneDurations, k - 1) + sceneDurations[k]

\* generateSubtitles: timestamps[index] for a 0-based index
Timestamp(sceneDurations, index) ==
  [ start |-> Cumulative(sceneDurations, index),
    end |-> Cumulative(sceneDurations, index) + sceneDurations[index + 1] ]

\* generateSubtitles: the caption of one dialogue line,
\* salesPitchSegments ? text : (script.on_screen_text[index] || text)
OverlayText(script, salesPitchSegments, index) ==
  IF salesPitchSegments # None THEN Return(Get(salesPitchSegments)[index + 1])
  ELSE IF script.on_screen_text = None THEN Throw(TypeErr)
  ELSE Return(OrElse(At(Get(script.on_screen_text), index),
                     Get(script.beats)[index + 1]))

\* generateSubtitles: (salesPitchSegments || script.beats).map(...), one
\* `Dialogue:` event per element, given the measured durations
DialogueLines(script, salesPitchSegments, sceneDurations) ==
  LET texts == IF salesPitchSegments # None THEN Get(salesPitchSegments)
               ELSE Get(script.beats)
      line(k) == OverlayText(script, salesPitchSegments, k - 1)
  IN IF \E k \in DOMAIN texts : ~line(k).ok THEN Throw(TypeErr)
     ELSE Return([k \in DOMAIN texts |->
            [ start |-> formatTime(Timestamp(sceneDurations, k - 1).start),
              end |-> formatTime(Timestamp(sceneDurations, k - 1).end),
              text |-> Get(line(k).val) ]])

\* generateSubtitles after its last probe: the dialogue lines are built and
\* the subtitle file is written, or building them throws
BeginWriteAss(id, r) ==
  LET res == DialogueLines(Get(JobOf(id).script), JobOf(id).sales_pitch,
                           r.sceneDurations)
  IN IF ~res.ok THEN Catch(id, cur, res.err)
     ELSE Commit(id, cur, [r EXCEPT !.pc = "write_ass", !.dialogue = Get(res.val)])

\* the stream-copy concat settles; addOverlays -> generateSubtitles starts
\* probing the normalized clips
ConcatDone(id, outcome) ==
  /\ run[id].pc = "concat"
  /\ IF outcome = "fail" THEN Catch(id, cur, ExecError) /\ fs' = fs
     ELSE /\ fs' = fs \cup {ConcatPath(id)}
          /\ LET r == [run[id] EXCEPT !.i = 0, !.sceneDurations = <<>>]
             IN IF SubtitleSceneCount(JobOf(id)) > 0
                THEN Commit(id, cur, [r EXCEPT !.pc = "probe"])
                ELSE BeginWriteAss(id, r)

\* getVideoDuration of `${renderId}_scene${i}_norm.mp4` settles
ProbeDone(id, outcome, duration) ==
  /\ run[id].pc = "probe"
  /\ outcome = "ok" => NormPath(id, run[id].i) \in fs
  /\ fs' = fs
  /\ IF outcome = "fail" THEN Catch(id, cur, ExecError)
     ELSE LET r == [run[id] EXCEPT !.sceneDurations = Append(@, duration),
                                   !.i = @ + 1]
          IN IF r.i < SubtitleSceneCount(JobOf(id))
             THEN Commit(id, cur, r)
             ELSE BeginWriteAss(id, r)

\* writeFile of the subtitle file settles and generateSubtitles returns: its
\* locals are gone; the burn-in is started
WriteAssDone(id, outcome) ==
  /\ run[id].pc = "write_ass"
  /\ ToolDone(id, outcome, FsError, {AssPath(id)},
              [run[id] EXCEPT !.pc = "burn", !.sceneDurations = <<>>,
                              !.dialogue = <<>>])

\* the subtitle burn-in settles; appendEndCard -> generateEndCard starts
BurnDone(id, outcome) ==
  /\ run[id].pc = "burn"
  /\ ToolDone(id, outcome, ExecError, {OverlaysPath(id)},
              [run[id] EXCEPT !.pc = "endcard_png"])

EndCardPngDone(id, outcome) ==
  /\ run[id].pc = "endcard_png"
  /\ ToolDone(id, outcome, ExecError, {EndCardPngPath(id)},
              [run[id] EXCEPT !.pc = "endcard_mp4"])

EndCardMp4Done(id, outcome) ==
  /\ run[id].pc = "endcard_mp4"
  /\ ToolDone(id, outcome, ExecError, {EndCardMp4Path(id)},
              [run[id] EXCEPT !.pc = "write_final_list"])

WriteFinalListDone(id, outcome) ==
  /\ run[id].pc = "write_final_list"
  /\ ToolDone(id, outcome, FsError, {FinalListPath(id)},
              [run[id] EXCEPT !.pc = "final_concat"])

\* the final concat settles: step record 'compose'; Step 6 calls performQC
FinalConcatDone(id, outcome) ==
  /\ run[id].pc = "final_concat"
  /\ IF outcome = "fail" THEN Catch(id, cur, ExecError) /\ fs' = fs
     ELSE /\ Commit(id, WithJob(cur, id, PushStep(JobOf(id), "compose")),
                    [run[id] EXCEPT !.pc = "qc"])
          /\ fs' = fs \cup {FinalPath(id)}

\* -------------------------------------------------------------- lib/qc
\* what ffprobe reports of the final asset: None when the probe or its
\* JSON parse fails, else the format duration (seconds) and the video stream
QcProbes ==
  {None} \cup
  { Some([duration |-> d, video |-> st.video, width |-> 1080,
          height |-> st.height, fps |-> st.fps]) :
      d \in {0, 21, 23},
      st \in { [video |-> FALSE, height |-> 0, fps |-> 0],
               [video |-> TRUE, height |-> 1920, fps |-> 30],
               [video |-> TRUE, height |-> 1920, fps |-> 15],
               [video |-> TRUE, height |-> 1920, fps |-> 0],
               [video |-> TRUE, height |-> 1080, fps |-> 30] } }

QcProbesIn(w) ==
  IF w # "solo"
  THEN {None, Some([duration |-> 21, video |-> TRUE, width |-> 1080,
                    height |-> 1920, fps |-> 30])}
  ELSE QcProbes

Abs(x) == IF x < 0 THEN -x ELSE x

\* metrics: duration_s is set when the probe has a format section (always,
\* here), resolution and fps only when a video stream is found
performQC(probe, expectedDuration) ==
  IF probe = None
  THEN [passed |-> FALSE, issues |-> <<"Failed to perform QC checks">>,
        metrics |-> None]
  ELSE LET m == Get(probe)
           resolution == IF m.video
                         THEN Some(ToString(m.width) \o "x" \o ToString(m.height))
                         ELSE None
           fps == IF m.video THEN Some(m.fps) ELSE None
           issues ==
             (IF m.duration # 0 /\ Abs(m.duration - expectedDuration) > 1
              THEN <<"Duration mismatch">> ELSE <<>>)
             \o (IF resolution # Some("1080x1920")
                 THEN <<"Resolution mismatch">> ELSE <<>>)
             \o (IF fps # None /\ Get(fps) # 0 /\ Get(fps) < 24 THEN <<"Low FPS">> ELSE <<>>)
       IN [passed |-> issues = <<>>, issues |-> issues,
           metrics |-> Some([duration_s |-> m.duration, resolution |-> resolution,
                             fps |-> fps])]

\* one hexadecimal digit
HexDigit(c) ==
  CASE c = "0" -> 0 [] c = "1" -> 1 [] c = "2" -> 2 [] c = "3" -> 3
    [] c = "4" -> 4 [] c = "5" -> 5 [] c = "6" -> 6 [] c = "7" -> 7
    [] c = "8" -> 8 [] c = "9" -> 9 [] c = "A" -> 10 [] c = "B" -> 11
    [] c = "C" -> 12 [] c = "D" -> 13 [] c = "E" -> 14 [] c = "F" -> 15

RECURSIVE ParseHex(_)
\* parseInt(s, 16) of a string of hexadecimal digits
ParseHex(s) ==
  IF s = "" THEN 0
  ELSE 16 * ParseHex(SubstringFrom(s, 0, Len(s) - 1))
         + HexDigit(SubstringFrom(s, Len(s) - 1, Len(s)))

\* the channel values 0..255 the colours drawn below are made of
ChannelBytes == {0, 11, 17, 24, 39, 95, 119, 136, 255}

\* checkColorContrast: c <= 0.03928 ? c / 12.92 : ((c + 0.055) / 1.055) ^ 2.4
\* of c = byte / 255, in units of 1/100000 (rounded), for the channel values
\* of ChannelBytes
Linearized(byte) ==
  CASE byte = 0 -> 0 [] byte = 11 -> 335 [] byte = 17 -> 561
    [] byte = 24 -> 913 [] byte = 39 -> 2029 [] byte = 95 -> 11444
    [] byte = 119 -> 18447 [] byte = 136 -> 24620 [] byte = 255 -> 100000

\* checkColorContrast getLuminance, in units of 1/1000000: hex.slice(1) is
\* parsed and split into its three bytes
getLuminance(hex) ==
  LET rgb == ParseHex(SubstringFrom(hex, 1, Len(hex)))
      r == (rgb \div 65536) % 256
      g == (rgb \div 256) % 256
      b == rgb % 256
  IN (2126 * Linearized(r) + 7152 * Linearized(g) + 722 * Linearized(b)) \div 1000

\* (la + 0.05) / (lb + 0.05) in hundredths, rounded down
RatioOf(la, lb) == (100 * (la + 50000)) \div (lb + 50000)

\* faulty variant: the ratio is taken primary over secondary, whichever is
\* lighter
contrastRatioOrdered(primaryHex, secondaryHex) ==
  RatioOf(getLuminance(primaryHex), getLuminance(secondaryHex))

\* checkColorContrast: ratio = l1 > l2 ? (l1 + 0.05) / (l2 + 0.05)
\*                                     : (l2 + 0.05) / (l1 + 0.05)
contrastRatio(primaryHex, secondaryHex) ==
  LET l1 == getLuminance(primaryHex)
      l2 == getLuminance(secondaryHex)
  IN IF l1 > l2 THEN RatioOf(l1, l2) ELSE RatioOf(l2, l1)

\* checkColorContrast: WCAG AA, ratio >= 4.5
checkColorContrast(primaryHex, secondaryHex) ==
  contrastRatio(primaryHex, secondaryHex) >= 450

\* ---------------------------------------------------------- Steps 6 and 7
estimateCost(engine, sceneCount) ==
  LET cost == IF engine = "template" THEN 1
              ELSE IF engine = "sora2" THEN 50 * sceneCount
              ELSE IF engine = "veo3" THEN 40 * sceneCount
              ELSE 0
  IN IF cost = 0 THEN 1 ELSE cost

LocalUrl(id) == "file://" \o FinalPath(id)
SignedUrl(id) == "https://s3/renders/" \o id \o "/final.mp4?signed"

\* faulty variant: a failed quality check aborts the job
FinishUnlessQcFailed(id, st, r, videoUrl) ==
  IF ~Get(r.qc).passed THEN CatchFrom(id, st, r, MkError("QC checks failed"))
  ELSE LET ref == Get(r.job)
           job == [PushStep([st.heap[ref] EXCEPT !.final_video = Some(videoUrl)],
                            "upload")
                     EXCEPT !.cost_cents = estimateCost(EngineOf(st.heap[ref].request),
                                             Len(Get(st.heap[ref].shot_plan).scenes))]
           st2 == updateJobStatus([st EXCEPT !.heap[ref] = job], id, "READY", None)
       IN Commit(id, saveJob(st2, ref), [r EXCEPT !.pc = "done"])

\* job.final_video, step record 'upload', cost, updateJobStatus READY, saveJob
Finish(id, st, r, videoUrl) ==
  LET ref == Get(r.job)
      job == st.heap[ref]
      job2 == [PushStep([job EXCEPT !.final_video = Some(videoUrl)], "upload")
                 EXCEPT !.cost_cents = estimateCost(EngineOf(job.request),
                                          Len(Get(job.shot_plan).scenes))]
      st2 == updateJobStatus([st EXCEPT !.heap[ref] = job2], id, "READY", None)
  IN Commit(id, saveJob(st2, ref), [r EXCEPT !.pc = "done"])

\* performQC settles (it never rejects): step record 'qc'; Step 7 uploads
\* when S3 credentials are configured, else publishes the local file URL
QcDone(id) ==
  /\ run[id].pc = "qc"
  /\ \E probe \in QcProbesIn(world) :
      /\ fs' = fs
      /\ LET qcResult == performQC(probe, DurationOf(JobOf(id).request))
             st == WithJob(cur, id, PushStep(JobOf(id), "qc"))
             r == [run[id] EXCEPT !.qc = Some(qcResult)]
         IN IF config.s3
            THEN Commit(id, st, [r EXCEPT !.pc = "upload"])
            ELSE Finish(id, st, r, LocalUrl(id))

\* uploadFile settles: getSignedDownloadUrl is called, or the inner catch
\* publishes the local file URL
\* faulty variant: a failed upload ends the job READY with nothing stored
UploadDoneUnstored(id, outcome) ==
  /\ run[id].pc = "upload"
  /\ fs' = fs
  /\ IF outcome = "fail"
     THEN Commit(id, saveJob(updateJobStatus(cur, id, "READY", None), Get(run[id].job)),
                 [run[id] EXCEPT !.pc = "done"])
     ELSE Commit(id, cur, [run[id] EXCEPT !.pc = "sign"])

UploadDone(id, outcome) ==
  /\ run[id].pc = "upload"
  /\ fs' = fs
  /\ IF outcome = "fail" THEN Finish(id, cur, run[id], LocalUrl(id))
     ELSE Commit(id, cur, [run[id] EXCEPT !.pc = "sign"])

SignDone(id, outcome) ==
  /\ run[id].pc = "sign"
  /\ fs' = fs
  /\ Finish(id, cur, run[id], IF outcome = "fail" THEN LocalUrl(id) ELSE SignedUrl(id))

\* ------------------------------------------------------------ api/server.ts
\* GET /render/:id
GetRender(st, render_id) ==
  LET job == getJob(st, render_id) IN
  IF job = None THEN [code |-> 404, render_id |-> render_id]
  ELSE LET j == st.heap[Get(job)] IN
       [ code |-> 200, render_id |-> render_id, status |-> j.status,
         video_url |-> j.final_video, error |-> j.error, brief |-> j.brief,
         script |-> j.script, shot_plan |-> j.shot_plan,
         cost_cents |-> j.cost_cents ]

PollStatus(id) ==
  /\ polled' = Some(GetRender(cur, id))
  /\ UNCHANGED <<jobs, heap, run, fs, world, config, hist, calls, inflight, applied>>

\* ------------------------------------------------------------ gen_veo3.ts
\* gen_veo3.ts: const maxPolls = 60
MaxPolls == 60
\* gen_veo3.ts validateVideoFile: stats.size < 1000
MinVideoBytes == 1000

\* the awaits inside generateVeoScene
VeoInner ==
  {"veo_submit", "veo_wait", "veo_poll", "veo_download", "veo_stat",
   "veo_flush", "veo_probe"}

\* the long-running operation the Gemini API answers with: done, whether it
\* carries an error payload, whether response.generatedVideos[0].video is set
Operations ==
  {[done |-> FALSE, error |-> FALSE, video |-> FALSE]}
    \cup [done : {TRUE}, error : BOOLEAN, video : BOOLEAN]

\* generateVideos / getVideosOperation: rejected (None) or an operation
ApiResults == {None} \cup {Some(o) : o \in Operations}

\* sizes stat reports for the downloaded file
FileSizes == {MinVideoBytes - 1, MinVideoBytes}

VeoTimeout == MkError("Veo operation timed out after 60 polls")
VeoFailed == MkError("Veo operation failed")
VeoNoVideo == MkError("No video generated in operation response")
VeoNoKey == MkError("GEMINI_API_KEY is not configured")
VeoTooSmall == MkError("Video file too small, likely corrupted")
VeoInvalid == MkError("Video file validation failed")

\* the locals of generateVeoScene go out of scope
VeoReset(r) == [r EXCEPT !.pollCount = 0, !.operation = None, !.size = 0]

\* an await inside generateVeoScene settles and the next one is issued: the
\* orchestrator is still awaiting the same generateScene call
StepInner(id, r) ==
  /\ polled' = None
  /\ config' = config
  /\ world' = world
  /\ applied' = applied
  /\ jobs' = jobs
  /\ heap' = heap
  /\ hist' = hist
  /\ calls' = calls
  /\ run' = [run EXCEPT ![id] = r]
  /\ inflight' = [inflight EXCEPT ![id] = Settle(@, run[id].pc) \cup {r.pc}]

\* faulty variant: the adapter lets the error reach the orchestrator
VeoRaiseFatal(id, err) == Catch(id, cur, err)

\* generateVeoScene throws: Veo3Adapter.generate catches, logs and calls
\* TemplateAdapter.generate for the same scene
VeoRaise(id, err) == Commit(id, cur, [VeoReset(run[id]) EXCEPT !.pc = "template"])

\* generateVeoScene returns outPath: sceneFiles.push, next scene
VeoReturn(id) ==
  CommitBoth(id, BeginScene(cur,
    [VeoReset(run[id]) EXCEPT !.sceneFiles = Append(run[id].sceneFiles,
                                                   ScenePath(id, run[id].i)),
                              !.i = run[id].i + 1]))

\* faulty variant: the poll loop has no attempt ceiling
LoopContinuesUnbounded(operation, pollCount) == ~operation.done

\* while (!operation.done && pollCount < maxPolls)
LoopContinues(operation, pollCount) == ~operation.done /\ pollCount < MaxPolls

\* faulty variant: the error payload is not looked at
OperationFailedNever(operation) == FALSE

\* if (operation.error)
OperationFailed(operation) == operation.error

\* generateVeoScene once `operation` is assigned: the loop condition, then
\* after the loop the timeout, error-payload and missing-video checks, then
\* the download
AfterOperation(id, operation) ==
  LET r == [run[id] EXCEPT !.operation = Some(operation)] IN
  IF LoopContinues(operation, r.pollCount)
  THEN StepInner(id, [r EXCEPT !.pc = "veo_wait"])
  ELSE IF ~operation.done THEN VeoRaise(id, VeoTimeout)
  ELSE IF OperationFailed(operation) THEN VeoRaise(id, VeoFailed)
  ELSE IF ~operation.video THEN VeoRaise(id, VeoNoVideo)
  ELSE StepInner(id, [r EXCEPT !.pc = "veo_download"])

\* Veo3Adapter.generate calls generateVeoScene: getGeminiClient throws
\* without an API key, else ai.models.generateVideos is awaited
VeoCall(id) ==
  /\ run[id].pc = "veo"
  /\ fs' = fs
  /\ IF ~config.gemini THEN VeoRaise(id, VeoNoKey)
     ELSE StepInner(id, [run[id] EXCEPT !.pc = "veo_submit", !.pollCount = 0])

\* ai.models.generateVideos settles
VeoSubmitDone(id, res) ==
  /\ run[id].pc = "veo_submit"
  /\ fs' = fs
  /\ IF res = None THEN VeoRaise(id, NetworkError)
     ELSE AfterOperation(id, Get(res))

\* faulty variant: the attempt is not counted
VeoWaitDoneUncounted(id) ==
  /\ run[id].pc = "veo_wait"
  /\ fs' = fs
  /\ StepInner(id, [run[id] EXCEPT !.pc = "veo_poll"])

\* the 10 s timer fires: pollCount++, getVideosOperation is awaited
VeoWaitDone(id) ==
  /\ run[id].pc = "veo_wait"
  /\ fs' = fs
  /\ StepInner(id, [run[id] EXCEPT !.pollCount = @ + 1, !.pc = "veo_poll"])

\* ai.operations.getVideosOperation settles
VeoPollDone(id, res) ==
  /\ run[id].pc = "veo_poll"
  /\ fs' = fs
  /\ IF res = None THEN VeoRaise(id, NetworkError)
     ELSE AfterOperation(id, Get(res))

\* ai.files.download settles: validateVideoFile starts with stat(outPath)
VeoDownloadDone(id, outcome, size) ==
  /\ run[id].pc = "veo_download"
  /\ IF outcome = "fail"
     THEN VeoRaise(id, NetworkError) /\ fs' = fs
     ELSE /\ StepInner(id, [run[id] EXCEPT !.pc = "veo_stat", !.size = size])
          /\ fs' = fs \cup {ScenePath(id, run[id].i)}

\* stat settles: the size check, then the 500 ms settle timer
VeoStatDone(id, outcome) ==
  /\ run[id].pc = "veo_stat"
  /\ fs' = fs
  /\ IF outcome = "fail" THEN VeoRaise(id, FsError)
     ELSE IF run[id].size < MinVideoBytes THEN VeoRaise(id, VeoTooSmall)
     ELSE StepInner(id, [run[id] EXCEPT !.pc = "veo_flush"])

\* the 500 ms timer fires: ffprobe is awaited
VeoFlushDone(id) ==
  /\ run[id].pc = "veo_flush"
  /\ fs' = fs
  /\ StepInner(id, [run[id] EXCEPT !.pc = "veo_probe"])

\* ffprobe settles: the file is rejected, or generateVeoScene returns outPath
VeoProbeDone(id, outcome) ==
  /\ run[id].pc = "veo_probe"
  /\ fs' = fs
  /\ IF outcome = "fail" THEN VeoRaise(id, VeoInvalid)
     ELSE VeoReturn(id)

\* ---------------------------------------------------------- specification
Next ==
  \/ \E id \in IdsIn(world) : SubmitJob(id)
  \/ \E id \in IdsIn(world) : ProcessUnknownJob(id)
  \/ \E id \in IdsIn(world) : PostRender(id)
  \/ \E id \in Ids, outcome \in Outcomes : MkdirTmpDone(id, outcome)
  \/ \E id \in Ids, outcome \in Outcomes : MkdirRendersDone(id, outcome)
  \/ \E id \in Ids : ParseDone(id)
  \/ \E id \in Ids : SalesPitchDone(id)
  \/ \E id \in Ids : ScriptDone(id)
  \/ \E id \in Ids : ShotPlanDone(id)
  \/ \E id \in Ids, outcome \in Outcomes : ReaddirDone(id, outcome)
  \/ \E id \in Ids, outcome \in Outcomes : VeoDone(id, outcome)
  \/ \E id \in Ids, outcome \in Outcomes : TemplateDone(id, outcome)
  \/ \E id \in Ids, outcome \in Outcomes : NormalizeDone(id, outcome)
  \/ \E id \in Ids, outcome \in Outcomes : WriteConcatListDone(id, outcome)
  \/ \E id \in Ids, outcome \in Outcomes : ConcatDone(id, outcome)
  \/ \E id \in Ids, outcome \in Outcomes, d \in ProbeDurations : ProbeDone(id, outcome, d)
  \/ \E id \in Ids, outcome \in Outcomes : WriteAssDone(id, outcome)
  \/ \E id \in Ids, outcome \in Outcomes : BurnDone(id, outcome)
  \/ \E id \in Ids, outcome \in Outcomes : EndCardPngDone(id, outcome)
  \/ \E id \in Ids, outcome \in Outcomes : EndCardMp4Done(id, outcome)
  \/ \E id \in Ids, outcome \in Outcomes : WriteFinalListDone(id, outcome)
  \/ \E id \in Ids, outcome \in Outcomes : FinalConcatDone(id, outcome)
  \/ \E id \in Ids : QcDone(id)
  \/ \E id \in Ids, outcome \in Outcomes : UploadDone(id, outcome)
  \/ \E id \in Ids, outcome \in Outcomes : SignDone(id, outcome)
  \/ \E id \in IdsIn(world) : PollStatus(id)

\* one job, every input
Init == world = "solo" /\ Base /\ fs = OldFiles

Spec == Init /\ [][Next]_vars

\* two interleaved jobs
InitDuo == world = "duo" /\ Base /\ fs = {}

SpecDuo == InitDuo /\ [][Next]_vars

\* one posted job, generateVeoScene followed await by await
NextVeo ==
  \/ \E id \in IdsIn(world) : PostRender(id)
  \/ \E id \in Ids, outcome \in Outcomes : MkdirTmpDone(id, outcome)
  \/ \E id \in Ids, outcome \in Outcomes : MkdirRendersDone(id, outcome)
  \/ \E id \in Ids : ParseDone(id)
  \/ \E id \in Ids : SalesPitchDone(id)
  \/ \E id \in Ids : ScriptDone(id)
  \/ \E id \in Ids : ShotPlanDone(id)
  \/ \E id \in Ids : VeoCall(id)
  \/ \E id \in Ids, res \in ApiResults : VeoSubmitDone(id, res)
  \/ \E id \in Ids : VeoWaitDone(id)
  \/ \E id \in Ids, res \in ApiResults : VeoPollDone(id, res)
  \/ \E id \in Ids, outcome \in Outcomes, size \in FileSizes :
       VeoDownloadDone(id, outcome, size)
  \/ \E id \in Ids, outcome \in Outcomes : VeoStatDone(id, outcome)
  \/ \E id \in Ids : VeoFlushDone(id)
  \/ \E id \in Ids, outcome \in Outcomes : VeoProbeDone(id, outcome)
  \/ \E id \in Ids, outcome \in Outcomes : TemplateDone(id, outcome)
  \/ \E id \in Ids, outcome \in Outcomes : NormalizeDone(id, outcome)
  \/ \E id \in Ids, outcome \in Outcomes : WriteConcatListDone(id, outcome)
  \/ \E id \in Ids, outcome \in Outcomes : ConcatDone(id, outcome)
  \/ \E id \in Ids, outcome \in Outcomes, d \in ProbeDurations : ProbeDone(id, outcome, d)
  \/ \E id \in Ids, outcome \in Outcomes : WriteAssDone(id, outcome)
  \/ \E id \in Ids, outcome \in Outcomes : BurnDone(id, outcome)
  \/ \E id \in Ids, outcome \in Outcomes : EndCardPngDone(id, outcome)
  \/ \E id \in Ids, outcome \in Outcomes : EndCardMp4Done(id, outcome)
  \/ \E id \in Ids, outcome \in Outcomes : WriteFinalListDone(id, outcome)
  \/ \E id \in Ids, outcome \in Outcomes : FinalConcatDone(id, outcome)
  \/ \E id \in Ids : QcDone(id)
  \/ \E id \in Ids, outcome \in Outcomes : UploadDone(id, outcome)
  \/ \E id \in Ids, outcome \in Outcomes : SignDone(id, outcome)
  \/ \E id \in IdsIn(world) : PollStatus(id)

InitVeo == world = "veo" /\ Base /\ fs = {}

SpecVeo == InitVeo /\ [][NextVeo]_vars

\* the same, where every external call that is awaited eventually returns
\* or fails: an activation that can advance does advance
SpecVeoLive == InitVeo /\ [][NextVeo]_vars /\ WF_vars(NextVeo /\ run' # run)

\* ------------------------------------------------- helpers on their own
\* offsets in milliseconds: around 0, around one minute, around one hour
Offsets ==
  {ms \in (0..60) \cup (59940..60060) \cup (3599940..3600060) : ms % 10 # 5}

\* a narrative beat longer than the overlay limit of 60 characters
LongBeat ==
  "Design and scale backend services handling 100M+ requests per day"

\* scripts of two beats; an on-screen text is present, empty or missing
CaptionScripts ==
  [ hook : {Some("Ready?")},
    beats : {Some(<<"Beat 1", LongBeat>>)},
    on_screen_text : {None, Some(<<>>), Some(<<"Text 1">>), Some(<<"", "">>),
                      Some(<<"Text 1", "Text 2">>)},
    cta_url : {None} ]

CaptionSegments == {None, Some(<<"Pitch 1">>), Some(<<"Pitch 1", "Pitch 2">>)}

HexDigits == {"0", "5", "B", "F"}

\* 6-digit colours RRGGBB
Colours ==
  {a \o b \o c \o d \o e \o f :
     a \in HexDigits, b \in HexDigits, c \in HexDigits,
     d \in HexDigits, e \in HexDigits, f \in HexDigits}

\* 'AA' is the default of hexToAssColor, 'DD' what its callers pass
Alphas == {"AA", "DD"}

\* '#'-prefixed colours: the brand colours of the README and greys
ContrastColours ==
  {"#0B5FFF", "#111827"} \cup
  {"#" \o r \o g \o b : r \in {"00", "77", "88", "FF"},
                          g \in {"00", "77", "88", "FF"},
                          b \in {"00", "77", "88", "FF"}}

\* a helper is called on its own, once per behaviour
Apply(fn, args, out) ==
  /\ applied' = Some([fn |-> fn, args |-> args, out |-> out])
  /\ UNCHANGED <<jobs, heap, run, fs, polled, world, config, hist, calls, inflight>>

Idle == world = "fn" /\ applied = None

ApplyFormatTime ==
  /\ Idle
  /\ \E ms \in Offsets : Apply("formatTime", <<ms>>, formatTime(ms))

\* generateSubtitles builds the events for as many measured durations as
\* there are texts
ApplyDialogueLines ==
  /\ Idle
  /\ \E script \in CaptionScripts, salesPitchSegments \in CaptionSegments,
        duration \in ProbeDurations :
       LET n == IF salesPitchSegments # None THEN Len(Get(salesPitchSegments))
                ELSE Len(Get(script.beats))
           sceneDurations == [k \in 1..n |-> duration]
       IN Apply("DialogueLines", <<script, salesPitchSegments, sceneDurations>>,
                DialogueLines(script, salesPitchSegments, sceneDurations))

ApplyHexToAssColor ==
  /\ Idle
  /\ \E rgb \in Colours, alpha \in Alphas, prefix \in {"", "#"} :
       Apply("hexToAssColor", <<prefix \o rgb, alpha>>,
             hexToAssColor(prefix \o rgb, alpha))

ApplyCheckColorContrast ==
  /\ Idle
  /\ \E primaryHex \in ContrastColours, secondaryHex \in ContrastColours :
       Apply("checkColorContrast", <<primaryHex, secondaryHex>>,
             [ passed |-> checkColorContrast(primaryHex, secondaryHex),
               ratio |-> contrastRatio(primaryHex, secondaryHex) ])

\* briefs that parseJobDescription accepts: title and impact are present
AcceptedBriefs ==
  [ title : {Some("Engineer")}, impact : {Some("ship things")},
    location : {None, Some("Berlin")},
    top_responsibilities : {None, Some(<<>>), Some(<<"Build the pipeline">>)},
    benefits : {None, Some(<<>>), Some(<<"Remote work">>)} ]

\* answers of the pitch collaborator for up to MaxSceneCount + 1 scenes
PitchAnswers ==
  {Resp(k, [segments |-> None, full_pitch |-> "pitch"]) : k \in Kinds}
    \cup {Resp("json", [segments |-> Some(Texts("Pitch ", k)), full_pitch |-> "pitch"]) :
            k \in 0..(MaxSceneCount + 1)}

ApplyGenerateSalesPitch ==
  /\ Idle
  /\ \E brief \in AcceptedBriefs, sceneCount \in 1..(MaxSceneCount + 1),
        resp \in PitchAnswers :
       Apply("generateSalesPitch", <<brief, sceneCount, resp>>,
             generateSalesPitch(brief, sceneCount, resp))

NextFn ==
  \/ ApplyGenerateSalesPitch
  \/ ApplyFormatTime
  \/ ApplyDialogueLines
  \/ ApplyHexToAssColor
  \/ ApplyCheckColorContrast

InitFn == world = "fn" /\ Base /\ fs = {}

SpecFn == InitFn /\ [][NextFn]_vars

\* ================================================================== claims
Stored(id) == id \in DOMAIN jobs
Job(id) == heap[jobs[id]]
Range(seq) == {seq[k] : k \in DOMAIN seq}
IsPrefix(a, b) == Len(a) <= Len(b) /\ \A k \in DOMAIN a : a[k] = b[k]
LastOp(id) == calls[id][Len(calls[id])].op
Finished(id) == Stored(id) /\ run[id].pc = "done"

\* the working-directory set-up that precedes Step 1
SetupOps == {"mkdir_tmp", "mkdir_renders"}

\* C1: the status values a job takes over its lifetime form a prefix of
\* QUEUED, RUNNING, READY or of QUEUED, RUNNING, ERROR, whatever fails
\* (the directory set-up included).
C1_StatusSequence ==
  \A id \in Ids :
    \/ IsPrefix(hist[id], <<"QUEUED", "RUNNING", "READY">>)
    \/ IsPrefix(hist[id], <<"QUEUED", "RUNNING", "ERROR">>)

\* C2: once a stored job is READY or ERROR, no step of any run and no store
\* operation changes its status.
C2_TerminalIsFinal ==
  [][\A id \in DOMAIN jobs :
       heap[jobs[id]].status \in {"READY", "ERROR"}
         => (id \in DOMAIN jobs' /\ heap'[jobs'[id]].status = heap[jobs[id]].status)]_vars

\* two jobs ran interleaved and ended differently: each terminal status
\* survived the other run's steps
C2_Witness ==
  \E a \in Ids, b \in Ids :
    /\ Finished(a) /\ Finished(b)
    /\ Job(a).status = "READY" /\ Job(b).status = "ERROR"
    /\ Len(hist[a]) = 3 /\ Len(hist[b]) = 3

\* C3: every pipeline stage call (the brief extraction first) is issued
\* while the job's status is RUNNING, never while it is QUEUED.
C3_StagesOnlyWhileRunning ==
  \A id \in Ids : \A k \in DOMAIN calls[id] :
    calls[id][k].op \notin SetupOps => calls[id][k].status = "RUNNING"

C3_Witness ==
  \E id \in Ids :
    /\ Len(calls[id]) >= 3 /\ calls[id][3].op = "parse"
    /\ run[id].pc = "qc"

\* C4: a job in ERROR carries the non-empty message of the error its run
\* caught, a status poll of it answers ERROR with that message, and a job not
\* in ERROR carries no error message.
C4_ErrorCarriesMessage ==
  /\ \A id \in DOMAIN jobs :
       IF Job(id).status = "ERROR"
       THEN /\ run[id].error # None
            /\ Job(id).error = Some(ErrorString(Get(run[id].error)))
            /\ ~Falsy(Job(id).error)
       ELSE Job(id).error = None
  /\ polled # None /\ Get(polled).code = 200 =>
       LET resp == Get(polled) IN
       /\ resp.status = Job(resp.render_id).status
       /\ resp.error = Job(resp.render_id).error
       /\ resp.status = "ERROR" => ~Falsy(resp.error)

C4_Witness ==
  /\ polled # None /\ Get(polled).code = 200
  /\ Get(polled).status = "ERROR"
  /\ Get(polled).error = Some("Error: Invalid script structure")

\* the stage an external operation belongs to, in pipeline order
StageRank(op) ==
  IF op \in SetupOps THEN 0
  ELSE IF op = "parse" THEN 1
  ELSE IF op = "sales_pitch" THEN 2
  ELSE IF op = "script" THEN 3
  ELSE IF op = "shot_plan" THEN 4
  ELSE IF op \in {"readdir", "veo", "template"} THEN 5
  ELSE IF op \in {"normalize", "write_concat_list", "concat"} THEN 6
  ELSE IF op \in {"probe", "write_ass", "burn"} THEN 7
  ELSE IF op \in {"endcard_png", "endcard_mp4", "write_final_list", "final_concat"} THEN 8
  ELSE IF op = "qc" THEN 9
  ELSE 10

SceneOps == {"veo", "template"}

\* C5: within one run the stages are invoked in pipeline order, each
\* single-call stage once, scenes one at a time in index order, with never
\* two external operations of the job in flight; a READY job went through
\* every stage up to the quality check.
C5_StagesInOrder ==
  \A id \in Ids :
    LET log == calls[id] IN
    /\ Cardinality(inflight[id]) <= 1
    /\ \A k \in 1..(Len(log) - 1) :
         /\ StageRank(log[k].op) <= StageRank(log[k + 1].op)
         /\ StageRank(log[k + 1].op) <= StageRank(log[k].op) + 1
         /\ log[k + 1].op \in {"parse", "sales_pitch", "script", "shot_plan", "qc"}
              => StageRank(log[k].op) < StageRank(log[k + 1].op)
         /\ log[k + 1].op \in SceneOps =>
              IF log[k].op \in SceneOps
              THEN \/ log[k + 1].idx = log[k].idx + 1
                   \/ /\ log[k + 1].idx = log[k].idx
                      /\ log[k].op = "veo" /\ log[k + 1].op = "template"
              ELSE log[k + 1].idx = 0
    /\ Stored(id) /\ Job(id).status = "READY" =>
         {StageRank(log[k].op) : k \in DOMAIN log} \cap (1..9) = 1..9

C5_Witness ==
  \E id \in Ids :
    /\ Stored(id) /\ Job(id).status = "READY"
    /\ \E k \in DOMAIN calls[id] : calls[id][k].op = "template" /\ calls[id][k].idx = 2
    /\ \E k \in DOMAIN calls[id] : calls[id][k].op = "sign"

\* the debug-trace step name of the stage an operation belongs to
StepOf(op) ==
  IF op = "parse" THEN "parse"
  ELSE IF op = "sales_pitch" THEN "sales_pitch"
  ELSE IF op \in {"script", "shot_plan"} THEN "script"
  ELSE IF op = "readdir" THEN "find_existing"
  ELSE IF op \in SceneOps THEN "generate"
  ELSE IF StageRank(op) \in 6..8 THEN "compose"
  ELSE IF op = "qc" THEN "qc"
  ELSE "upload"

\* C6: when a run has ended, the debug trace holds a step record for every
\* stage the run started, the stage that failed included.
C6_FailedStageRecorded ==
  \A id \in Ids :
    Finished(id) =>
      \A k \in DOMAIN calls[id] :
        calls[id][k].op \notin SetupOps
          => StepOf(calls[id][k].op) \in Range(Job(id).steps)

\* the collaborator contract for a script answered to a request for n scenes
ContractInvalidScript(script, n) ==
  \/ Falsy(script.hook)
  \/ script.beats = None
  \/ Len(Get(script.beats)) # n

\* C7: a brief answer without title or impact, or a script answer that
\* breaks the script contract for the requested scene count, ends the job in
\* ERROR with the validation message, with no later stage invoked and no final
\* asset reference set.
C7_InvalidResponseHalts ==
  \A id \in Ids :
    LET r == run[id]
        badBrief == /\ r.briefResp # None /\ Get(r.briefResp).kind = "json"
                    /\ \/ Falsy(Get(r.briefResp).json.title)
                       \/ Falsy(Get(r.briefResp).json.impact)
        badScript == /\ r.scriptResp # None /\ Get(r.scriptResp).kind = "json"
                     /\ ContractInvalidScript(Get(r.scriptResp).json,
                                              SceneCountOf(Job(id).request))
    IN (badBrief \/ badScript) =>
         /\ r.pc = "done"
         /\ Job(id).status = "ERROR"
         /\ Job(id).error = Some(IF badBrief
                                 THEN "Error: Missing required fields in parsed brief"
                                 ELSE "Error: Invalid script structure")
         /\ LastOp(id) = (IF badBrief THEN "parse" ELSE "script")
         /\ Job(id).final_video = None

\* C8: a script answer with a hook and a beats array is rejected exactly
\* when the number of beats differs from the requested scene count.
C8_RejectedIffBeatsMismatch ==
  \A id \in Ids :
    LET r == run[id] IN
    (/\ r.scriptResp # None /\ Get(r.scriptResp).kind = "json"
     /\ ~Falsy(Get(r.scriptResp).json.hook)
     /\ Get(r.scriptResp).json.beats # None)
    => (Job(id).script = None
          <=> Len(Get(Get(r.scriptResp).json.beats)) # SceneCountOf(Job(id).request))

\* C9: the shot plan stored on a job has exactly as many scenes as the
\* request's scene count.
C9_PlanLengthIsSceneCount ==
  \A id \in DOMAIN jobs :
    Job(id).shot_plan # None
      => Len(Get(Job(id).shot_plan).scenes) = SceneCountOf(Job(id).request)

\* C10: no run ends in ERROR in the shot-plan stage: generateShotPlan
\* returns a plan for every accepted script and every collaborator outcome.
C10_ShotPlanNeverRaises ==
  \A id \in Ids :
    ~(Finished(id) /\ Job(id).status = "ERROR" /\ LastOp(id) = "shot_plan")

\* the plan the local fallback computes for the job's stored script
FallbackPlanOf(id) ==
  makeShotPlanFallback(Get(Job(id).script), DurationOf(Job(id).request),
                       Job(id).request.tone)

\* C11: in a stored plan that the local fallback produced, every scene's
\* planned length is the total duration divided (integer division) by the
\* request's scene count.
C11_FallbackSceneLength ==
  \A id \in DOMAIN jobs :
    (/\ Job(id).shot_plan # None
     /\ FallbackPlanOf(id).ok
     /\ Job(id).shot_plan = FallbackPlanOf(id).val)
    => \A k \in DOMAIN Get(Job(id).shot_plan).scenes :
         Get(Job(id).shot_plan).scenes[k].len_s
           = DurationOf(Job(id).request) \div SceneCountOf(Job(id).request)

\* the engine identifiers the adapter chain knows
KnownEngines == {"template", "veo3", "sora2"}

\* C12: a job accepted with an absent or unrecognized engine identifier
\* makes no external-generation call: its scenes come from the Template
\* variant.
C12_DefaultEngineIsTemplate ==
  \A id \in DOMAIN jobs :
    (/\ run[id].asked # None
     /\ \/ Falsy(Get(run[id].asked))
        \/ Get(Get(run[id].asked)) \notin KnownEngines)
    => \A k \in DOMAIN calls[id] : calls[id][k].op # "veo"

\* the activation of id is inside Veo3Adapter.generate's try block
InVeo(id) == run[id].pc \in VeoInner \cup {"veo"}

\* C13: whichever way the external-generation attempt of a scene fails, the
\* failure is absorbed: the job stays RUNNING and the Template variant is
\* invoked for the same scene; every collected clip is at the job-id+index
\* path; no job ends in ERROR at the external-generation call, and a READY
\* job has a clip for every planned scene.
C13_VeoFailureAbsorbed ==
  /\ [](\A id \in DOMAIN jobs :
         /\ \A k \in DOMAIN run[id].sceneFiles :
              /\ run[id].sceneFiles[k] = ScenePath(id, k - 1)
              /\ run[id].sceneFiles[k] \in fs
         /\ Finished(id) /\ Job(id).status = "ERROR" => LastOp(id) # "veo"
         /\ Job(id).status = "READY" =>
              /\ Job(id).scene_files # None
              /\ Len(Get(Job(id).scene_files)) = Len(Get(Job(id).shot_plan).scenes))
  /\ [][\A id \in DOMAIN jobs :
          (/\ InVeo(id)
           /\ run'[id].pc \notin VeoInner \cup {"veo"}
           /\ run'[id].sceneFiles = run[id].sceneFiles)
          => /\ run'[id].pc = "template"
             /\ run'[id].i = run[id].i
             /\ heap'[jobs'[id]].status = "RUNNING"
             /\ heap'[jobs'[id]].error = None]_vars

\* every scene's external generation failed and the job is READY
C13_Witness ==
  \E id \in DOMAIN jobs :
    /\ Job(id).status = "READY"
    /\ \A i \in 0..(Len(Get(Job(id).shot_plan).scenes) - 1) :
         /\ \E k \in DOMAIN calls[id] : calls[id][k].op = "veo" /\ calls[id][k].idx = i
         /\ \E k \in DOMAIN calls[id] : calls[id][k].op = "template" /\ calls[id][k].idx = i

\* C14: no job ends in ERROR at a scene-acquisition call, whichever variant
\* was selected and whichever adapter step failed.
C14_SceneAcquisitionNeverFatal ==
  \A id \in Ids :
    ~(Finished(id) /\ Job(id).status = "ERROR" /\ LastOp(id) \in SceneOps)

\* C15: for one scene at most MaxPolls status polls are issued, each one
\* right after one 10-second wait; a wait is only entered while the
\* operation is not done and fewer than MaxPolls polls were made, and after
\* the MaxPolls-th poll the attempt either goes on to the download or fails.
C15_PollLoopBounded ==
  /\ [](\A id \in Ids :
         /\ run[id].pollCount <= MaxPolls
         /\ run[id].pc = "veo_wait" =>
              /\ run[id].operation # None
              /\ ~Get(run[id].operation).done
              /\ run[id].pollCount < MaxPolls
         /\ run[id].pc = "veo_poll" =>
              /\ run[id].pollCount >= 1
              /\ ~Get(run[id].operation).done)
  /\ [][\A id \in Ids :
          /\ (run'[id].pc = "veo_poll" /\ run'[id] # run[id]) =>
               /\ run[id].pc = "veo_wait"
               /\ run'[id].pollCount = run[id].pollCount + 1
          /\ (run'[id].pc = "veo_wait" /\ run'[id] # run[id]) =>
               /\ run[id].pc \in {"veo_submit", "veo_poll"}
               /\ run'[id].pollCount = run[id].pollCount
          /\ (run[id].pc = "veo_poll" /\ run[id].pollCount = MaxPolls
              /\ run'[id] # run[id]) =>
               run'[id].pc \in {"template", "veo_download"}]_vars

\* the last permitted poll is in flight
C15_Witness ==
  \E id \in Ids : run[id].pc = "veo_poll" /\ run[id].pollCount = MaxPolls

\* C16: generateVeoScene gets to the download only with an operation that
\* is done, carries no error payload and has a media reference; it gets to
\* the media probe only with the file downloaded and at least MinVideoBytes
\* long; it hands a clip path to the caller only when that probe settles, and
\* leaves in every other case by raising into the adapter's fallback.
C16_VeoReturnsOnlyValidClip ==
  /\ [](\A id \in Ids :
         /\ run[id].pc \in {"veo_download", "veo_stat", "veo_flush", "veo_probe"} =>
              /\ run[id].operation # None
              /\ Get(run[id].operation).done
              /\ ~Get(run[id].operation).error
              /\ Get(run[id].operation).video
         /\ run[id].pc \in {"veo_stat", "veo_flush", "veo_probe"} =>
              ScenePath(id, run[id].i) \in fs
         /\ run[id].pc \in {"veo_flush", "veo_probe"} =>
              run[id].size >= MinVideoBytes)
  /\ [][\A id \in Ids :
          InVeo(id) /\ run'[id] # run[id] =>
            IF run'[id].sceneFiles # run[id].sceneFiles
            THEN /\ run[id].pc = "veo_probe"
                 /\ run'[id].sceneFiles
                      = Append(run[id].sceneFiles, ScenePath(id, run[id].i))
            ELSE run'[id].pc \in VeoInner \cup {"template"}]_vars

\* the first scene's clip came from generateVeoScene, not from the template
C16_Witness ==
  \E id \in Ids :
    /\ Len(run[id].sceneFiles) >= 1
    /\ \A k \in DOMAIN calls[id] : calls[id][k].op # "template"
    /\ \E k \in DOMAIN calls[id] : calls[id][k].op = "veo"

\* what the Template variant does for a job: no external-generation call,
\* every collected clip written at the job-id+index path, and a failure of
\* its tool invocation reaching the job as that tool's error
TemplateBehaviour(id) ==
  /\ \A k \in DOMAIN calls[id] : calls[id][k].op # "veo"
  /\ \A k \in DOMAIN run[id].sceneFiles :
       /\ run[id].sceneFiles[k] = ScenePath(id, k - 1)
       /\ run[id].sceneFiles[k] \in fs
  /\ Finished(id) /\ LastOp(id) = "template" =>
       /\ Job(id).status = "ERROR"
       /\ Job(id).error = Some(ErrorString(ExecError))

\* C17: a job that acquires its scenes through the stub variant behaves as
\* one that acquires them through the Template variant: same clip paths,
\* same files written, same failure behaviour, no external-generation call.
C17_StubDelegatesToTemplate ==
  \A id \in DOMAIN jobs :
    (/\ EngineOf(Job(id).request) \in {"sora2", "template"}
     /\ ~Job(id).request.overlay_only)
    => TemplateBehaviour(id)

C17_Witness ==
  \E id \in DOMAIN jobs :
    /\ EngineOf(Job(id).request) = "sora2"
    /\ Job(id).status = "READY"
    /\ Job(id).scene_files = Some([k \in 1..3 |-> ScenePath(id, k - 1)])

\* the awaited sub-steps of composition
ComposeOps ==
  {"normalize", "write_concat_list", "concat", "probe", "write_ass", "burn",
   "endcard_png", "endcard_mp4", "write_final_list", "final_concat"}

\* the file a composition sub-step leaves when it succeeds (the duration
\* probe leaves none)
ComposeOutput(id, op, idx) ==
  IF op = "normalize" THEN {NormPath(id, idx)}
  ELSE IF op = "write_concat_list" THEN {ConcatListPath(id)}
  ELSE IF op = "concat" THEN {ConcatPath(id)}
  ELSE IF op = "write_ass" THEN {AssPath(id)}
  ELSE IF op = "burn" THEN {OverlaysPath(id)}
  ELSE IF op = "endcard_png" THEN {EndCardPngPath(id)}
  ELSE IF op = "endcard_mp4" THEN {EndCardMp4Path(id)}
  ELSE IF op = "write_final_list" THEN {FinalListPath(id)}
  ELSE IF op = "final_concat" THEN {FinalPath(id)}
  ELSE {}

\* C18: the pipeline goes past a composition sub-step only when that
\* sub-step succeeded (its output file exists); a run that ended at a
\* composition sub-step left the job in ERROR with the caught message, with
\* quality check and publish never invoked and no final asset reference.
C18_CompositionFailureIsFatal ==
  \A id \in Ids :
    LET log == calls[id] IN
    /\ \A k \in 1..(Len(log) - 1) :
         log[k].op \in ComposeOps => ComposeOutput(id, log[k].op, log[k].idx) \subseteq fs
    /\ Finished(id) /\ LastOp(id) \in ComposeOps =>
         /\ Job(id).status = "ERROR"
         /\ run[id].error # None
         /\ Job(id).error = Some(ErrorString(Get(run[id].error)))
         /\ ~Falsy(Job(id).error)
         /\ Job(id).final_video = None
         /\ \A k \in DOMAIN log : log[k].op \notin {"qc", "upload", "sign"}

\* the caption burn-in failed
C18_Witness ==
  \E id \in Ids :
    Finished(id) /\ LastOp(id) = "burn" /\ Job(id).status = "ERROR"

\* C19: performQC never raises and its result never blocks publication:
\* once the quality check has been invoked the job is never in ERROR, the
\* step after it is the publish step, and the run ends READY with a final
\* asset reference, whether the result is pass, fail or probe failure.
C19_QcNeverBlocks ==
  /\ [](\A id \in DOMAIN jobs :
         (\E k \in DOMAIN calls[id] : calls[id][k].op = "qc") =>
           /\ Job(id).status # "ERROR"
           /\ Finished(id) =>
                /\ Job(id).status = "READY"
                /\ Job(id).final_video # None
                /\ run[id].qc # None)
  /\ [][\A id \in DOMAIN jobs :
          run[id].pc = "qc" /\ run'[id] # run[id] =>
            /\ run'[id].qc # None
            /\ \/ run'[id].pc = "upload"
               \/ run'[id].pc = "done" /\ heap'[jobs'[id]].status = "READY"]_vars

\* a job whose quality probe failed is READY
C19_Witness ==
  \E id \in DOMAIN jobs :
    /\ Job(id).status = "READY"
    /\ run[id].qc # None
    /\ Get(run[id].qc).issues = <<"Failed to perform QC checks">>

\* the debug trace of a stored job
DebugOf(id) == [steps |-> Job(id).steps, cost_cents |-> Job(id).cost_cents]

\* C20: the outcome of a failed quality check is on the job's debug trace:
\* two READY jobs, one whose check passed and one whose check failed, differ
\* in their debug traces.
C20_QcFailureOnRecord ==
  \A a \in DOMAIN jobs, b \in DOMAIN jobs :
    (/\ Job(a).status = "READY" /\ Job(b).status = "READY"
     /\ run[a].qc # None /\ run[b].qc # None
     /\ Get(run[a].qc).passed /\ ~Get(run[b].qc).passed)
    => DebugOf(a) # DebugOf(b)

\* the quality result of a job whose final asset was probed successfully
Probed(id) == Stored(id) /\ run[id].qc # None /\ Get(run[id].qc).metrics # None

\* C21: for every probed asset, performQC reports a duration issue exactly
\* when the duration is more than 1 second off the requested target, a
\* resolution issue exactly when the resolution is not 1080x1920, a frame-rate
\* issue exactly when the video stream's frame rate is below 24, and passed
\* exactly when none of the three applies.
C21_QcIssuesExact ==
  \A id \in DOMAIN jobs :
    Probed(id) =>
      LET qc == Get(run[id].qc)
          m == Get(qc.metrics)
          target == DurationOf(Job(id).request)
          offDuration == Abs(m.duration_s - target) > 1
          offResolution == m.resolution # Some("1080x1920")
          lowFps == m.fps # None /\ Get(m.fps) < 24
      IN /\ ("Duration mismatch" \in Range(qc.issues)) = offDuration
         /\ ("Resolution mismatch" \in Range(qc.issues)) = offResolution
         /\ ("Low FPS" \in Range(qc.issues)) = lowFps
         /\ qc.passed = (~offDuration /\ ~offResolution /\ ~lowFps)

\* the request of the single-scene template scenario
ScenarioA(request) ==
  /\ request.scene_count = Some(1)
  /\ request.engine = Some("template")
  /\ ~request.overlay_only

\* C22: a finished single-scene template job whose brief answer was valid,
\* whose script answer kept the contract for one scene (a hook and 1 beat)
\* and none of whose local tools failed has produced exactly one scene file
\* and is READY, never ERROR.
C22_SingleSceneTemplateReady ==
  \A id \in Ids :
    LET r == run[id] IN
    (/\ Finished(id)
     /\ ScenarioA(Job(id).request)
     /\ r.briefResp = Some(Resp("json", FullBrief))
     /\ r.scriptResp # None /\ Get(r.scriptResp).kind = "json"
     /\ ~ContractInvalidScript(Get(r.scriptResp).json, 1)
     /\ r.error \notin {Some(ExecError), Some(FsError)})
    => /\ Job(id).status = "READY"
       /\ Job(id).scene_files # None
       /\ Len(Get(Job(id).scene_files)) = 1

\* compose_ffmpeg.ts appendEndCard: the end card clip is cut with `-t 2`
EndCardSeconds == 2

\* generators.ts TemplateAdapter: the clip is rendered with d=${scene.len_s}
TemplateClipSeconds(scene) == scene.len_s

RECURSIVE SumSeq(_)
SumSeq(s) == IF s = <<>> THEN 0 ELSE Head(s) + SumSeq(Tail(s))

\* the length of the final asset of a template job: the scene clips in plan
\* order, then the end card
FinalSeconds(job) ==
  SumSeq([k \in DOMAIN Get(job.shot_plan).scenes |->
            TemplateClipSeconds(Get(job.shot_plan).scenes[k])])
    + EndCardSeconds

\* C23: for a template-engine job that completes, the duration of the final
\* asset (the scene clips' lengths plus the end card) is within 1 second of
\* the requested target duration the quality check compares against.
C23_FinalDurationOnTarget ==
  \A id \in DOMAIN jobs :
    (/\ Job(id).status = "READY"
     /\ EngineOf(Job(id).request) = "template"
     /\ ~Job(id).request.overlay_only)
    => Abs(FinalSeconds(Job(id)) - DurationOf(Job(id).request)) <= 1

\* the job of id is at the overlay step: its caption events are built and
\* the subtitle file is being written
AtOverlay(id) == Stored(id) /\ run[id].pc = "write_ass"

\* the normalized scene clips of a job, in order (one per scene file)
NormalizedClips(id) == [k \in DOMAIN run[id].sceneFiles |-> NormPath(id, k - 1)]

\* C24: for every job at the overlay step, every normalized scene clip of
\* the job was measured and the end time of the last caption cue is the sum
\* of the measured durations of all of them.
C24_LastCueEndsAtMeasuredTotal ==
  \A id \in Ids :
    AtOverlay(id) =>
      LET r == run[id] IN
      /\ Len(r.sceneDurations) = Len(NormalizedClips(id))
      /\ r.dialogue # <<>>
      /\ r.dialogue[Len(r.dialogue)].end = formatTime(SumSeq(r.sceneDurations))

\* C25: the overlay step emits exactly one caption event per normalized
\* scene clip, in order: the first event starts at 0 and event i starts at
\* the sum of the measured durations of the clips before it and ends at that
\* sum plus the measured duration of clip i.
C25_OneCuePerClip ==
  \A id \in Ids :
    AtOverlay(id) =>
      LET r == run[id] IN
      /\ Len(r.dialogue) = Len(NormalizedClips(id))
      /\ \A k \in DOMAIN r.dialogue :
           /\ k \in DOMAIN r.sceneDurations
           /\ k = 1 => r.dialogue[k].start = "0:00:00.00"
           /\ r.dialogue[k].start = formatTime(SumSeq(SubSeq(r.sceneDurations, 1, k - 1)))
           /\ r.dialogue[k].end = formatTime(SumSeq(SubSeq(r.sceneDurations, 1, k)))

\* the call of the helper fn made on its own, if the last step was one
Called(fn) == applied # None /\ Get(applied).fn = fn

RECURSIVE ParseDec(_)
\* the number a string of decimal digits denotes
ParseDec(s) ==
  IF s = "" THEN 0
  ELSE 10 * ParseDec(SubSeq(s, 1, Len(s) - 1)) + HexDigit(SubSeq(s, Len(s), Len(s)))

\* C26: for every non-negative offset, the cue timestamp has the form
\* H:MM:SS.cc with a two-digit minutes field in 00..59 and a seconds field in
\* 00.00..59.99, and denotes the offset rounded to the nearest centisecond.
C26_CueTimestampWellFormed ==
  Called("formatTime") =>
    LET ms == Get(applied).args[1]
        t == Get(applied).out
        n == Len(t)
        hours == ParseDec(SubSeq(t, 1, n - 9))
        minutes == ParseDec(SubSeq(t, n - 7, n - 6))
        seconds == ParseDec(SubSeq(t, n - 4, n - 3))
        centis == ParseDec(SubSeq(t, n - 1, n))
    IN /\ n >= 10
       /\ SubSeq(t, n - 8, n - 8) = ":"
       /\ SubSeq(t, n - 5, n - 5) = ":"
       /\ SubSeq(t, n - 2, n - 2) = "."
       /\ minutes \in 0..59
       /\ seconds \in 0..59
       /\ centis \in 0..99
       /\ 360000 * hours + 6000 * minutes + 100 * seconds + centis = (ms + 5) \div 10

\* C27: for each scene index of a script that has an on-screen text array,
\* the caption text is the pitch segment at that index when pitch segments
\* were supplied; otherwise the scene's on-screen text when it is non-empty;
\* otherwise the narrative beat text, cut to the maximum overlay length when
\* it is longer.
C27_CaptionTextPriority ==
  (Called("DialogueLines") /\ Get(applied).args[1].on_screen_text # None) =>
    LET script == Get(applied).args[1]
        salesPitchSegments == Get(applied).args[2]
        out == Get(applied).out
        onScreen(k) == At(Get(script.on_screen_text), k - 1)
        expected(k) ==
          IF salesPitchSegments # None THEN Get(salesPitchSegments)[k]
          ELSE IF ~Falsy(onScreen(k)) THEN Get(onScreen(k))
          ELSE Substring(Get(script.beats)[k], OverlayMaxLen)
    IN /\ out.ok
       /\ \A k \in DOMAIN Get(out.val) : Get(out.val)[k].text = expected(k)

\* C28: for every 6-hex-digit colour RRGGBB, with or without a leading '#',
\* and alpha byte AA, hexToAssColor yields &H AA BB GG RR &: #0B5FFF gives
\* blue FF, green 5F, red 0B after the alpha, and reversing the three colour
\* bytes of the result gives RRGGBB back.
C28_AssColourIsByteReversal ==
  Called("hexToAssColor") =>
    LET hex == Get(applied).args[1]
        alpha == Get(applied).args[2]
        out == Get(applied).out
        rgb == IF SubSeq(hex, 1, 1) = "#" THEN SubSeq(hex, 2, 7) ELSE hex
    IN /\ Len(out) = 11
       /\ SubSeq(out, 1, 2) = "&H" /\ SubSeq(out, 11, 11) = "&"
       /\ SubSeq(out, 3, 4) = alpha
       /\ SubSeq(out, 5, 6) = SubSeq(rgb, 5, 6)
       /\ SubSeq(out, 7, 8) = SubSeq(rgb, 3, 4)
       /\ SubSeq(out, 9, 10) = SubSeq(rgb, 1, 2)
       /\ SubSeq(out, 9, 10) \o SubSeq(out, 7, 8) \o SubSeq(out, 5, 6) = rgb
       /\ rgb = "0B5FFF" => out = "&H" \o alpha \o "FF5F0B" \o "&"

\* the brand colour of the README with the alpha the compositor passes
C28_Witness ==
  applied = Some([fn |-> "hexToAssColor", args |-> <<"#0B5FFF", "DD">>,
                  out |-> "&HDDFF5F0B&"])

\* C29: checkColorContrast takes the ratio (L_lighter + 0.05) /
\* (L_darker + 0.05) of the two relative luminances and passes exactly when
\* it is at least 4.5: white against black gives 21 and passes, #777777
\* against #888888 is below 4.5 and fails, and swapping the two colours does
\* not change the result.
C29_ContrastThreshold ==
  Called("checkColorContrast") =>
    LET primaryHex == Get(applied).args[1]
        secondaryHex == Get(applied).args[2]
        out == Get(applied).out
        l1 == getLuminance(primaryHex)
        l2 == getLuminance(secondaryHex)
        lighter == IF l1 > l2 THEN l1 ELSE l2
        darker == IF l1 > l2 THEN l2 ELSE l1
    IN /\ out.ratio = RatioOf(lighter, darker)
       /\ out.passed = (100 * (lighter + 50000) >= 450 * (darker + 50000))
       /\ out.passed = checkColorContrast(secondaryHex, primaryHex)
       /\ {primaryHex, secondaryHex} = {"#FFFFFF", "#000000"}
            => out.ratio = 2100 /\ out.passed
       /\ {primaryHex, secondaryHex} = {"#777777", "#888888"}
            => out.ratio < 450 /\ ~out.passed

\* black text colour against white: the lighter colour is the second one
C29_Witness ==
  applied = Some([fn |-> "checkColorContrast", args |-> <<"#000000", "#FFFFFF">>,
                  out |-> [passed |-> TRUE, ratio |-> 2100]])

\* generators.ts TemplateAdapter: one lavfi colour input and no audio input,
\* so the clip has a video stream only
TemplateStreams == {"video"}

\* gen_veo3.ts: the downloaded clip carries the generated audio
\* (compose_ffmpeg.ts: "preserve audio from Veo3 videos")
VeoStreams == {"video", "audio"}

\* compose_ffmpeg.ts appendEndCard: the looped image plus anullsrc
EndCardStreams == {"video", "audio"}

\* scene clip i of a generated job was rendered by the template adapter
FromTemplate(id, i) ==
  \E k \in DOMAIN calls[id] : calls[id][k].op = "template" /\ calls[id][k].idx = i

\* concatenateScenes: the re-encode keeps the streams of its input
\* (-c:v libx264 -c:a aac adds none)
NormalizedStreams(id, i) == IF FromTemplate(id, i) THEN TemplateStreams ELSE VeoStreams

\* the streams found in the concatenated main asset
MainStreams(id) ==
  UNION {NormalizedStreams(id, i) : i \in 0..(Len(run[id].sceneFiles) - 1)}

\* C30: every stream-copy concatenation receives inputs of one stream
\* layout: when the scene concat of a generated job runs, all normalized
\* clips carry the same streams, and when the final concat runs, the end
\* card's audio track has an audio stream of the main asset to match.
C30_ConcatInputsCompatible ==
  \A id \in DOMAIN jobs :
    ~Job(id).request.overlay_only =>
      /\ run[id].pc = "concat" =>
           \A i, j \in 0..(Len(run[id].sceneFiles) - 1) :
             NormalizedStreams(id, i) = NormalizedStreams(id, j)
      /\ run[id].pc = "final_concat" =>
           \A s \in EndCardStreams : s \in MainStreams(id)

\* the file name p starts with the render id and an underscore
OwnedBy(p, id) == Len(p) > Len(id) /\ SubSeq(p, 1, Len(id) + 1) = id \o "_"

\* every artifact name a run of id can write: the id, then a scene index
\* and a stage suffix
ArtifactsOf(id) ==
  {ScenePath(id, i) : i \in 0..MaxArrayLen} \cup {NormPath(id, i) : i \in 0..MaxArrayLen}
    \cup {ConcatPath(id), ConcatListPath(id), AssPath(id), OverlaysPath(id),
          EndCardPngPath(id), EndCardMp4Path(id), FinalListPath(id), FinalPath(id)}

\* C31: every artifact path a run writes is a function of the job id, a
\* scene index and a stage suffix only, and the runs of two different job
\* ids write disjoint sets of paths: each file that appears in a step of the
\* run of id is one of id's artifact names, starts with id and does not
\* start with any other render id.
C31_ArtifactsNamedByJob ==
  [][fs' # fs =>
       \A id \in Ids :
         run'[id] # run[id] =>
           \A p \in fs' \ fs :
             /\ p \in ArtifactsOf(id)
             /\ OwnedBy(p, id)
             /\ \A other \in (Ids \cup {OldId}) \ {id} :
                  ~OwnedBy(p, other) /\ p \notin ArtifactsOf(other)]_vars

\* both interleaved jobs have written their final asset
C31_Witness ==
  /\ FinalPath("r_a") \in fs /\ FinalPath("r_b") \in fs
  /\ ScenePath("r_a", 0) \in fs /\ ScenePath("r_b", 0) \in fs

\* C32 (as stated): with jobs of distinct ids interleaved, each record ends
\* in the state it would have had with its job running alone.  Under tmp
\* there is nothing at the start, so a job in reuse-existing-clips mode that
\* runs alone finds no other render's clips: it ends in ERROR with no scene
\* files.
C32_RecordAsIfAlone ==
  \A id \in DOMAIN jobs :
    (Finished(id) /\ Job(id).request.overlay_only) =>
      Job(id).status = "ERROR" /\ Job(id).scene_files = None

\* C32 (amended): with jobs of distinct ids interleaved at every suspension
\* point, a job's record (status, error, brief, script, plan, scene files,
\* final asset, debug trace) is modified only by that job's own run: a step
\* that is not a step of the run of id leaves id's stored record, its status
\* history and its artifacts as they were, and a job that is not in
\* reuse-existing-clips mode records only artifacts of its own id.
C32_OnlyOwnRunModifies ==
  /\ [](\A id \in DOMAIN jobs :
          (~Job(id).request.overlay_only /\ Job(id).scene_files # None) =>
            \A k \in DOMAIN Get(Job(id).scene_files) :
              Get(Job(id).scene_files)[k] \in ArtifactsOf(id))
  /\ [][\A id \in DOMAIN jobs :
          run'[id] = run[id] =>
            /\ id \in DOMAIN jobs'
            /\ jobs'[id] = jobs[id]
            /\ heap'[jobs[id]] = heap[jobs[id]]
            /\ hist'[id] = hist[id]
            /\ \A p \in fs' \ fs : p \notin ArtifactsOf(id)]_vars

\* one job is READY while the other, started later, is still RUNNING past
\* its parse stage
C32_Witness ==
  /\ Stored("r_a") /\ Stored("r_b")
  /\ Job("r_a").status = "READY"
  /\ Job("r_b").status = "RUNNING" /\ Job("r_b").brief # None

\* C33: every job that enters RUNNING eventually reaches READY or ERROR,
\* provided each external call it awaits eventually returns or fails; a
\* generation operation that never reports done does not keep the job RUNNING
\* beyond the poll ceiling of each scene.
C33_RunningJobsTerminate ==
  \A id \in Ids :
    (Stored(id) /\ Job(id).status = "RUNNING")
      ~> (Stored(id) /\ Job(id).status \in {"READY", "ERROR"})

\* a job whose generation operation was polled up to the ceiling without
\* reporting done
C33_Witness ==
  \E id \in DOMAIN jobs :
    /\ Job(id).status = "RUNNING"
    /\ run[id].pc = "veo_poll" /\ run[id].pollCount = MaxPolls
    /\ run[id].operation # None /\ ~Get(run[id].operation).done
    /\ run[id].i = 1

\* C34: once a job's scene files are acquired (the start of composition),
\* its scene file list, its plan's scene list and its script's beat and
\* on-screen-text lists have the same length, and a generated job's scene
\* file i is the clip of planned scene i.
C34_SceneListsAligned ==
  \A id \in DOMAIN jobs :
    Job(id).scene_files # None =>
      LET files == Get(Job(id).scene_files)
          scenes == Get(Job(id).shot_plan).scenes
          script == Get(Job(id).script)
      IN /\ Len(files) = Len(scenes)
         /\ Len(scenes) = Len(Get(script.beats))
         /\ script.on_screen_text # None
         /\ Len(Get(script.on_screen_text)) = Len(Get(script.beats))
         /\ ~Job(id).request.overlay_only =>
              \A k \in DOMAIN files : files[k] = ScenePath(id, k - 1)

\* the number of times a run invoked the operation op
Invocations(id, op) == Cardinality({k \in DOMAIN calls[id] : calls[id][k].op = op})

\* C35: within one run the brief extraction and the script generation are
\* each invoked at most once, and when either fails the run is over with the
\* job in ERROR, the failed call being the last one the run made.
C35_NoRetry ==
  \A id \in Ids :
    /\ Invocations(id, "parse") <= 1
    /\ Invocations(id, "script") <= 1
    /\ (run[id].briefResp # None /\ ~parseJobDescription(Get(run[id].briefResp)).ok)
         => Finished(id) /\ Job(id).status = "ERROR" /\ LastOp(id) = "parse"
    /\ (run[id].scriptResp # None /\ Get(run[id].scriptResp).kind # "json")
         => Finished(id) /\ Job(id).status = "ERROR" /\ LastOp(id) = "script"

\* a run whose script collaborator failed after the brief was extracted
C35_Witness ==
  \E id \in DOMAIN jobs :
    /\ Finished(id) /\ Job(id).status = "ERROR"
    /\ run[id].scriptResp # None /\ Get(run[id].scriptResp).kind = "throw"
    /\ Job(id).brief # None /\ Invocations(id, "script") = 1

\* the step records of a run that went through every stage
FullTrace(job) ==
  <<"parse", "sales_pitch", "script",
    IF job.request.overlay_only THEN "find_existing" ELSE "generate",
    "compose", "qc", "upload">>

\* C36: a READY job has its final asset reference set (the signed remote
\* URL, or the local file URL when nothing was uploaded), has brief, script,
\* shot plan and scene files, and has exactly the step records of the seven
\* stages in their order; an ERROR job has no final asset reference.
C36_ReadyIsComplete ==
  \A id \in DOMAIN jobs :
    /\ Job(id).status = "READY" =>
         /\ Job(id).final_video \in {Some(SignedUrl(id)), Some(LocalUrl(id))}
         /\ (~config.s3 => Job(id).final_video = Some(LocalUrl(id)))
         /\ Job(id).brief # None /\ Job(id).script # None
         /\ Job(id).shot_plan # None /\ Job(id).scene_files # None
         /\ Job(id).steps = FullTrace(Job(id))
    /\ Job(id).status = "ERROR" => Job(id).final_video = None

\* a reuse-mode job READY on the signed URL of its uploaded asset
C36_Witness ==
  /\ \E id \in DOMAIN jobs :
       Job(id).status = "READY" /\ Job(id).final_video = Some(SignedUrl(id))
       /\ Job(id).request.overlay_only

\* C37: generateSalesPitch never raises and returns exactly sceneCount
\* segments, whether the collaborator's answer is accepted or the local
\* fallback is used, for every scene count and every accepted brief.
C37_PitchHasSceneCountSegments ==
  (applied # None /\ Get(applied).fn = "generateSalesPitch") =>
    LET sceneCount == Get(applied).args[2]
        out == Get(applied).out
    IN /\ out.ok
       /\ Len(Get(out.val).segments) = sceneCount

\* the render rid has a scene file for every index below n
HasAllScenes(rid, n) ==
  \A i \in 0..(n - 1) : NormPath(rid, i) \in fs \/ ScenePath(rid, i) \in fs

Acquiring(rid) ==
  /\ Stored(rid)
  /\ run[rid].pc \in {"veo", "veo_submit", "veo_wait", "veo_poll", "veo_download",
                      "veo_stat", "veo_flush", "veo_probe", "template", "normalize"}

\* C39: while a job in reuse mode reads the scene files it selected, no
\* render that owns one of them is still acquiring or normalizing its
\* scenes: the selected files are not being written and will not be
\* overwritten any more.
C39_ReuseOnlyFromCompletedRenders ==
  \A id \in DOMAIN jobs :
    (Job(id).request.overlay_only /\ Job(id).scene_files # None
       /\ run[id].pc = "normalize")
    => \A k \in DOMAIN Get(Job(id).scene_files) : \A rid \in Ids \ {id} :
         OwnedBy(Get(Job(id).scene_files)[k], rid) => ~Acquiring(rid)

\* processRenderJob runs for an id that is not in the store
UnknownRun(id) == run[id].pc # "idle" /\ ~Stored(id)

\* C40: processRenderJob called with an id that is not in the store ends
\* without raising: the missing job is an error its own catch handles; it
\* invokes no stage, and none of its steps creates a record or changes a
\* job, the store or the files.
C40_UnknownIdLeavesStoreUnchanged ==
  /\ [](\A id \in Ids : UnknownRun(id) =>
          /\ run[id].pc \in {"mkdir_tmp", "mkdir_renders", "done"}
          /\ \A k \in DOMAIN calls[id] : calls[id][k].op \in SetupOps
          /\ hist[id] = <<>>
          /\ run[id].pc = "done" =>
               run[id].error \in {Some(FsError), Some(MkError("Job not found"))})
  /\ [][\A id \in Ids : (UnknownRun(id) /\ run'[id] # run[id]) =>
          jobs' = jobs /\ heap' = heap /\ fs' = fs /\ hist' = hist]_vars

\* the call for an unknown id has ended on 'Job not found' while another
\* job is RUNNING
C40_Witness ==
  \E id \in Ids, other \in DOMAIN jobs :
    /\ UnknownRun(id) /\ run[id].pc = "done"
    /\ run[id].error = Some(MkError("Job not found"))
    /\ Job(other).status = "RUNNING" /\ Job(other).brief # None

====
